---- MODULE Spec2Model ----
\* Model of the resume pipeline of resume_agent_crewai (main.py).
\*
\* Texts are run-length encoded: a text is a sequence of runs [c, n], the
\* character c repeated n >= 1 times, no two neighbouring runs with the same c.
\* Characters: "a", "b" letters (str.isalpha), "1" a digit, "." punctuation,
\* " " and "\t" horizontal whitespace, "\n" newline.
EXTENDS Integers, Sequences, FiniteSets, TLC

\* ------------------------------------------------------------------ bounds
\* The number of events of a behaviour: runs started and files changed by the
\* environment.
MaxEvents == 3

\* ------------------------------------------------------- program constants
UPDATE_RESUME == "update_resume"
CREATE_WEBSITE == "create_website"
RESUME_PIPELINE == "resume_pipeline"
FLOW_VERSION == "resume-flow-v2"
MinResumeLen == 200
DefaultSourcePath == "src/resume_agent_crewai/Resume.pdf"
OutputPdfPath == "src/resume_agent_crewai/resume_updated.pdf"

\* --------------------------------------------------------------- texts
Rn(c, n) == [c |-> c, n |-> n]
AlphaChars == {"a", "b", "A", "B"}
AlnumChars == {"a", "b", "1"}
HSpaceChars == {" ", "\t"}
SpaceChars == {" ", "\t", "\n"}

RECURSIVE TextLen(_)
TextLen(t) ==
    IF t = <<>> THEN 0 ELSE Head(t).n + TextLen(Tail(t))

RECURSIVE CountAlpha(_)
CountAlpha(t) ==
    IF t = <<>> THEN 0
    ELSE (IF Head(t).c \in AlphaChars THEN Head(t).n ELSE 0) + CountAlpha(Tail(t))

RECURSIVE DropWhileIn(_, _)
DropWhileIn(t, cs) ==
    IF t /= <<>> /\ Head(t).c \in cs THEN DropWhileIn(Tail(t), cs) ELSE t

\* re.sub(r"[ \t]+", " ", text): every maximal run of spaces and tabs becomes
\* one space.
RECURSIVE SubHSpace(_)
SubHSpace(t) ==
    IF t = <<>> THEN <<>>
    ELSE IF Head(t).c \in HSpaceChars
         THEN <<Rn(" ", 1)>> \o SubHSpace(DropWhileIn(Tail(t), HSpaceChars))
         ELSE <<Head(t)>> \o SubHSpace(Tail(t))

\* re.sub(r"\n{k,}", "\n" * m, text) for (k, m) = (3, 2) and (2, 1).
RECURSIVE SubNewlines(_, _, _)
SubNewlines(t, k, m) ==
    IF t = <<>> THEN <<>>
    ELSE (IF Head(t).c = "\n" /\ Head(t).n >= k THEN <<Rn("\n", m)>> ELSE <<Head(t)>>)
         \o SubNewlines(Tail(t), k, m)

RECURSIVE Reverse(_)
Reverse(s) ==
    IF s = <<>> THEN <<>> ELSE Reverse(Tail(s)) \o <<Head(s)>>

\* str.strip()
Strip(t) ==
    Reverse(DropWhileIn(Reverse(DropWhileIn(t, SpaceChars)), SpaceChars))

NormalizeText(t) ==
    Strip(SubNewlines(SubHSpace(t), 3, 2))

\* A variant that accepts a text whose letters are exactly 40% of it.
IsReasonableResumeText_AtLeast(t) ==
    IF TextLen(t) < MinResumeLen THEN FALSE
    ELSE IF CountAlpha(t) = 0 THEN FALSE
    ELSE 5 * CountAlpha(t) >= 2 * TextLen(t)

IsReasonableResumeText(t) ==
    IF TextLen(t) < MinResumeLen THEN FALSE
    ELSE IF CountAlpha(t) = 0 THEN FALSE
    ELSE 5 * CountAlpha(t) > 2 * TextLen(t)

\* 5 * letters > 2 * len is letters / max(len, 1) > 0.4 in exact arithmetic.

\* ----------------------------------------------------- JSON values
\* A decoded JSON value keeps its type tag t; one record shape per field.
TV(t, s) == [t |-> t, s |-> s]              \* final_resume_text, list items
PV(t, p) == [t |-> t, p |-> p]              \* updated_pdf_path
IV(t, items) == [t |-> t, items |-> items]  \* feedback_items
LV(t, items) == [t |-> t, items |-> items]  \* applied/skipped_user_updates
Item(t, keys) == [t |-> t, keys |-> keys]   \* one element of feedback_items

RequiredKeys == {"final_resume_text", "updated_pdf_path", "feedback_items"}
UpdateKeys == {"applied_user_updates", "skipped_user_updates"}
MetaKeys ==
    {"generated_at_utc", "flow_version", "cache_key", "source_pdf_path", "source_pdf_hash"}
RecordKeys == MetaKeys \cup RequiredKeys \cup UpdateKeys
FeedbackKeys == {"category", "severity", "issue", "recommendation"}

NoKey == [v |-> "", h |-> "", r |-> <<>>]
NoMeta ==
    [generated_at_utc |-> 0, flow_version |-> "", cache_key |-> NoKey,
     source_pdf_path |-> "", source_pdf_hash |-> ""]

\* A decoded JSON object of the resume pipeline: the keys it has and the value
\* of each (a value under an absent key is never read).
Obj(keys, text, path, items, applied, skipped, meta) ==
    [keys |-> keys, final_resume_text |-> text, updated_pdf_path |-> path,
     feedback_items |-> items, applied_user_updates |-> applied,
     skipped_user_updates |-> skipped, meta |-> meta]

\* str(value): a string is itself, a number prints as a digit, None as "None".
StrText(v) ==
    IF v.t = "str" THEN v.s
    ELSE IF v.t = "num" THEN <<Rn("1", 1)>>
    ELSE <<Rn("a", 4)>>

StrPath(v) ==
    IF v.t = "str" THEN v.p ELSE "1"

\* [str(item) for item in value]: TypeError when value is not iterable.
StrList(v) ==
    IF v.t = "list"
    THEN [err |-> "none", list |-> [i \in 1..Len(v.items) |-> StrText(v.items[i])]]
    ELSE [err |-> "TypeError", list |-> <<>>]

\* payload.get(key, [])
GetList(o, key) ==
    IF key \in o.keys THEN o[key] ELSE LV("list", <<>>)

\* ------------------------------------------- _extract_json_object
\* A raw text is described by what each of the three attempts finds in it:
\*   direct  json.loads(raw.strip()): "bad" (JSONDecodeError), "nonobj", "obj"
\*   fence   the fenced-block regex: "none" (no match), else json.loads of group 1
\*   brace   raw[first "{" .. last "}"]: "none" (no such span), else json.loads of it
P(k, o) == [k |-> k, o |-> o]
Raw(direct, fence, brace) == [direct |-> direct, fence |-> fence, brace |-> brace]

ExtractJsonObject(raw) ==
    IF raw.direct.k = "obj" THEN [err |-> "none", obj |-> raw.direct.o]
    ELSE IF raw.fence.k = "bad" THEN [err |-> "JSONDecodeError", obj |-> raw.fence.o]
    ELSE IF raw.fence.k = "obj" THEN [err |-> "none", obj |-> raw.fence.o]
    ELSE IF raw.brace.k = "bad" THEN [err |-> "JSONDecodeError", obj |-> raw.brace.o]
    ELSE IF raw.brace.k = "obj" THEN [err |-> "none", obj |-> raw.brace.o]
    ELSE [err |-> "MalformedOutput", obj |-> raw.direct.o]


\* ------------------------------------------------------ files and paths
AbsSourcePath == "/cwd/src/resume_agent_crewai/Resume.pdf"
AbsOutputPdf == "/cwd/src/resume_agent_crewai/resume_updated.pdf"
MissingPdfPath == "/cwd/nowhere.pdf"

\* Path(p).expanduser().resolve(): a relative path is made absolute against the
\* working directory, an absolute one is itself.
Resolve(p) ==
    CASE p = DefaultSourcePath -> AbsSourcePath
      [] p = OutputPdfPath -> AbsOutputPdf
      [] p = "1" -> "/cwd/1"
      [] OTHER -> p

\* The source PDF and the rendered PDF at the fixed output path; no other PDF
\* file exists.
NoSource == [exists |-> FALSE, bytes |-> ""]
NoPdf == [exists |-> FALSE, text |-> <<>>]
PathExists(path, pdf) == path = AbsOutputPdf /\ pdf.exists

EmptyObj ==
    Obj({}, TV("null", <<>>), PV("num", ""), IV("null", <<>>),
        LV("list", <<>>), LV("list", <<>>), NoMeta)
NoFile == [kind |-> "missing", o |-> EmptyObj]

\* hashlib.sha256(...).hexdigest(), collision-free: the digest names its input.
Sha256Hex(bytes) ==
    CASE bytes = "pdfA" -> "sha256-of-pdfA"
      [] bytes = "pdfB" -> "sha256-of-pdfB"

\* sha256("|".join((version, source_hash, normalized_request))), collision-free.
CacheKey(version, hash, request) ==
    [v |-> version, h |-> hash, r |-> request]

\* ------------------------------------------------------------ package
InitPackage ==
    [source_pdf_path |-> DefaultSourcePath, source_pdf_hash |-> "",
     flow_version |-> "", cache_key |-> NoKey, cache_hit |-> FALSE,
     final_resume_text |-> <<>>, updated_pdf_path |-> "",
     feedback_items |-> <<>>, applied_user_updates |-> <<>>,
     skipped_user_updates |-> <<>>]

\* A variant that resolves the source path into the package before it looks for
\* the file: the run that fails for want of the source has then changed a field.
StageExtractResumeFingerprint_ResolvesFirst(pkg, request, src) ==
    IF ~src.exists
    THEN [err |-> "SourceNotFound",
          pkg |-> [pkg EXCEPT !.source_pdf_path = Resolve(pkg.source_pdf_path)]]
    ELSE [err |-> "none",
          pkg |-> [pkg EXCEPT
                     !.source_pdf_path = Resolve(pkg.source_pdf_path),
                     !.source_pdf_hash = Sha256Hex(src.bytes),
                     !.flow_version = FLOW_VERSION,
                     !.cache_key = CacheKey(FLOW_VERSION, Sha256Hex(src.bytes),
                                            NormalizeText(request))]]

\* A variant whose key leaves the source hash out.
StageExtractResumeFingerprint_KeyWithoutSource(pkg, request, src) ==
    IF ~src.exists
    THEN [err |-> "SourceNotFound", pkg |-> pkg]
    ELSE [err |-> "none",
          pkg |-> [pkg EXCEPT
                     !.source_pdf_path = Resolve(pkg.source_pdf_path),
                     !.source_pdf_hash = Sha256Hex(src.bytes),
                     !.flow_version = FLOW_VERSION,
                     !.cache_key = CacheKey(FLOW_VERSION, "",
                                            NormalizeText(request))]]

StageExtractResumeFingerprint(pkg, request, src) ==
    IF ~src.exists
    THEN [err |-> "SourceNotFound", pkg |-> pkg]
    ELSE [err |-> "none",
          pkg |-> [pkg EXCEPT
                     !.source_pdf_path = Resolve(pkg.source_pdf_path),
                     !.source_pdf_hash = Sha256Hex(src.bytes),
                     !.flow_version = FLOW_VERSION,
                     !.cache_key = CacheKey(FLOW_VERSION, Sha256Hex(src.bytes),
                                            NormalizeText(request))]]

\* A variant without the reasonableness gate on the final text.
SetResumeOutputs_NoGate(pkg, text, path, items, applied, skipped, hit, pdf) ==
    IF ~PathExists(Resolve(path), pdf)
    THEN [err |-> "UpdatedPdfNotFound", pkg |-> pkg]
    ELSE IF items.t /= "list" \/ items.items = <<>>
    THEN [err |-> "FeedbackItemsInvalid", pkg |-> pkg]
    ELSE [err |-> "none",
          pkg |-> [pkg EXCEPT
                     !.final_resume_text = NormalizeText(text),
                     !.updated_pdf_path = Resolve(path),
                     !.feedback_items = items.items,
                     !.applied_user_updates = applied,
                     !.skipped_user_updates = skipped,
                     !.cache_hit = hit]]

\* A variant that assigns the text and the path before it looks at the
\* feedback items.
SetResumeOutputs_AssignsEarly(pkg, text, path, items, applied, skipped, hit, pdf) ==
    IF ~IsReasonableResumeText(NormalizeText(text))
    THEN [err |-> "LowQualityOutput", pkg |-> pkg]
    ELSE IF ~PathExists(Resolve(path), pdf)
    THEN [err |-> "UpdatedPdfNotFound", pkg |-> pkg]
    ELSE IF items.t /= "list" \/ items.items = <<>>
    THEN [err |-> "FeedbackItemsInvalid",
          pkg |-> [pkg EXCEPT !.final_resume_text = NormalizeText(text),
                              !.updated_pdf_path = Resolve(path)]]
    ELSE [err |-> "none",
          pkg |-> [pkg EXCEPT
                     !.final_resume_text = NormalizeText(text),
                     !.updated_pdf_path = Resolve(path),
                     !.feedback_items = items.items,
                     !.applied_user_updates = applied,
                     !.skipped_user_updates = skipped,
                     !.cache_hit = hit]]

SetResumeOutputs(pkg, text, path, items, applied, skipped, hit, pdf) ==
    IF ~IsReasonableResumeText(NormalizeText(text))
    THEN [err |-> "LowQualityOutput", pkg |-> pkg]
    ELSE IF ~PathExists(Resolve(path), pdf)
    THEN [err |-> "UpdatedPdfNotFound", pkg |-> pkg]
    ELSE IF items.t /= "list" \/ items.items = <<>>
    THEN [err |-> "FeedbackItemsInvalid", pkg |-> pkg]
    ELSE [err |-> "none",
          pkg |-> [pkg EXCEPT
                     !.final_resume_text = NormalizeText(text),
                     !.updated_pdf_path = Resolve(path),
                     !.feedback_items = items.items,
                     !.applied_user_updates = applied,
                     !.skipped_user_updates = skipped,
                     !.cache_hit = hit]]

\* review.json and feedback.txt
NoArtifacts ==
    [review |-> [exists |-> FALSE, generated_at_utc |-> 0, flow_version |-> "",
                 cache_key |-> NoKey, feedback_items |-> <<>>,
                 applied_user_updates |-> <<>>, skipped_user_updates |-> <<>>],
     feedback |-> [exists |-> FALSE, feedback_items |-> <<>>]]

WriteResumeArtifacts(pkg, now) ==
    [review |-> [exists |-> TRUE, generated_at_utc |-> now,
                 flow_version |-> pkg.flow_version, cache_key |-> pkg.cache_key,
                 feedback_items |-> pkg.feedback_items,
                 applied_user_updates |-> pkg.applied_user_updates,
                 skipped_user_updates |-> pkg.skipped_user_updates],
     feedback |-> [exists |-> TRUE, feedback_items |-> pkg.feedback_items]]

StrValues(list) ==
    LV("list", [i \in 1..Len(list) |-> TV("str", list[i])])

\* A variant that leaves feedback_items out of the record it saves.
SaveResumeCache_MissingFeedback(pkg, now) ==
    [kind |-> "object",
     o |-> Obj(RecordKeys \ {"feedback_items"}, TV("str", pkg.final_resume_text),
               PV("str", pkg.updated_pdf_path), IV("list", pkg.feedback_items),
               StrValues(pkg.applied_user_updates),
               StrValues(pkg.skipped_user_updates),
               [generated_at_utc |-> now, flow_version |-> pkg.flow_version,
                cache_key |-> pkg.cache_key,
                source_pdf_path |-> pkg.source_pdf_path,
                source_pdf_hash |-> pkg.source_pdf_hash])]

\* A variant that writes the two update lists under each other's key.
SaveResumeCache_SwapsUpdates(pkg, now) ==
    [kind |-> "object",
     o |-> Obj(RecordKeys, TV("str", pkg.final_resume_text),
               PV("str", pkg.updated_pdf_path), IV("list", pkg.feedback_items),
               StrValues(pkg.skipped_user_updates),
               StrValues(pkg.applied_user_updates),
               [generated_at_utc |-> now, flow_version |-> pkg.flow_version,
                cache_key |-> pkg.cache_key,
                source_pdf_path |-> pkg.source_pdf_path,
                source_pdf_hash |-> pkg.source_pdf_hash])]

\* json.dump of the record; the file then holds a JSON object with ten keys.
SaveResumeCache(pkg, now) ==
    [kind |-> "object",
     o |-> Obj(RecordKeys, TV("str", pkg.final_resume_text),
               PV("str", pkg.updated_pdf_path), IV("list", pkg.feedback_items),
               StrValues(pkg.applied_user_updates),
               StrValues(pkg.skipped_user_updates),
               [generated_at_utc |-> now, flow_version |-> pkg.flow_version,
                cache_key |-> pkg.cache_key,
                source_pdf_path |-> pkg.source_pdf_path,
                source_pdf_hash |-> pkg.source_pdf_hash])]

\* The outcome of a stage: err, the package, the artifacts and the record file
\* it leaves, and the steps it took (events), in order.
Outcome(res, err, pkg, arts, file, events) ==
    [res |-> res, err |-> err, pkg |-> pkg, arts |-> arts, file |-> file,
     events |-> events]

\* The call of _set_resume_outputs of both callers, with the arguments built
\* from the payload before the call.
SetOutputsFrom(pkg, o, hit, pdf) ==
    LET applied == StrList(GetList(o, "applied_user_updates"))
        skipped == StrList(GetList(o, "skipped_user_updates"))
    IN  IF applied.err /= "none" THEN [err |-> applied.err, pkg |-> pkg]
        ELSE IF skipped.err /= "none" THEN [err |-> skipped.err, pkg |-> pkg]
        ELSE SetResumeOutputs(pkg, StrText(o.final_resume_text),
                              StrPath(o.updated_pdf_path), o.feedback_items,
                              applied.list, skipped.list, hit, pdf)

\* A variant whose hit sets the package but writes no artifact.
LoadResumeCache_NoArtifacts(pkg, file, pdf, arts, now) ==
    IF file.kind = "missing"
    THEN Outcome("miss", "none", pkg, arts, file, <<>>)
    ELSE IF file.kind = "undecodable"
    THEN Outcome("raise", "UnicodeDecodeError", pkg, arts, file, <<"cache_read">>)
    ELSE IF file.kind = "unparseable"
    THEN Outcome("miss", "none", pkg, arts, file, <<"cache_read">>)
    ELSE IF file.kind = "nonobject"
    THEN Outcome("raise", "AttributeError", pkg, arts, file, <<"cache_read">>)
    ELSE IF RequiredKeys \ file.o.keys /= {}
    THEN Outcome("miss", "none", pkg, arts, file, <<"cache_read">>)
    ELSE LET set == SetOutputsFrom(pkg, file.o, TRUE, pdf)
         IN  IF set.err /= "none"
             THEN Outcome("raise", set.err, set.pkg, arts, file, <<"cache_read">>)
             ELSE Outcome("hit", "none", set.pkg, arts, file,
                          <<"cache_read", "set_outputs">>)

\* A variant that lets the parse error of an unparseable record escape, and
\* does not look for the required keys.
LoadResumeCache_ParseErrorEscapes(pkg, file, pdf, arts, now) ==
    IF file.kind = "missing"
    THEN Outcome("miss", "none", pkg, arts, file, <<>>)
    ELSE IF file.kind = "undecodable"
    THEN Outcome("raise", "UnicodeDecodeError", pkg, arts, file, <<"cache_read">>)
    ELSE IF file.kind = "unparseable"
    THEN Outcome("raise", "JSONDecodeError", pkg, arts, file, <<"cache_read">>)
    ELSE IF file.kind = "nonobject"
    THEN Outcome("raise", "AttributeError", pkg, arts, file, <<"cache_read">>)
    ELSE LET set == SetOutputsFrom(pkg, file.o, TRUE, pdf)
         IN  IF set.err /= "none"
             THEN Outcome("raise", set.err, set.pkg, arts, file, <<"cache_read">>)
             ELSE Outcome("hit", "none", set.pkg, WriteResumeArtifacts(set.pkg, now),
                          file, <<"cache_read", "set_outputs", "write_artifacts">>)

\* A variant whose hit leaves skipped_user_updates empty.
LoadResumeCache_DropsSkipped(pkg, file, pdf, arts, now) ==
    IF file.kind = "missing"
    THEN Outcome("miss", "none", pkg, arts, file, <<>>)
    ELSE IF file.kind = "undecodable"
    THEN Outcome("raise", "UnicodeDecodeError", pkg, arts, file, <<"cache_read">>)
    ELSE IF file.kind = "unparseable"
    THEN Outcome("miss", "none", pkg, arts, file, <<"cache_read">>)
    ELSE IF file.kind = "nonobject"
    THEN Outcome("raise", "AttributeError", pkg, arts, file, <<"cache_read">>)
    ELSE IF RequiredKeys \ file.o.keys /= {}
    THEN Outcome("miss", "none", pkg, arts, file, <<"cache_read">>)
    ELSE LET set == SetOutputsFrom(pkg, file.o, TRUE, pdf)
             hit == [set.pkg EXCEPT !.skipped_user_updates = <<>>]
         IN  IF set.err /= "none"
             THEN Outcome("raise", set.err, set.pkg, arts, file, <<"cache_read">>)
             ELSE Outcome("hit", "none", hit, WriteResumeArtifacts(hit, now),
                          file, <<"cache_read", "set_outputs", "write_artifacts">>)

\* file: the content of the record file of the package's key.
\*   "missing"      no such file
\*   "undecodable"  bytes that are not UTF-8 (read_text raises UnicodeDecodeError)
\*   "unparseable"  text that json.loads rejects
\*   "nonobject"    a JSON value that is no object (payload.keys() raises)
\*   "object"       a JSON object, o
LoadResumeCache(pkg, file, pdf, arts, now) ==
    IF file.kind = "missing"
    THEN Outcome("miss", "none", pkg, arts, file, <<>>)
    ELSE IF file.kind = "undecodable"
    THEN Outcome("raise", "UnicodeDecodeError", pkg, arts, file, <<"cache_read">>)
    ELSE IF file.kind = "unparseable"
    THEN Outcome("miss", "none", pkg, arts, file, <<"cache_read">>)
    ELSE IF file.kind = "nonobject"
    THEN Outcome("raise", "AttributeError", pkg, arts, file, <<"cache_read">>)
    ELSE IF RequiredKeys \ file.o.keys /= {}
    THEN Outcome("miss", "none", pkg, arts, file, <<"cache_read">>)
    ELSE LET set == SetOutputsFrom(pkg, file.o, TRUE, pdf)
         IN  IF set.err /= "none"
             THEN Outcome("raise", set.err, set.pkg, arts, file, <<"cache_read">>)
             ELSE Outcome("hit", "none", set.pkg, WriteResumeArtifacts(set.pkg, now),
                          file, <<"cache_read", "set_outputs", "write_artifacts">>)


\* What ResumeCrew().crew().kickoff(...) does: it raises, or it returns raw text
\* after its write tool has left pdf at the output path.
CrewResult(kind, raw, pdf) == [kind |-> kind, raw |-> raw, pdf |-> pdf]

\* A variant that does not look for the required keys.
StageReviewUpdateRenderPdf_NoKeyCheck(pkg, crew, arts, file, now) ==
    IF crew.kind = "raise"
    THEN Outcome("raise", "CrewFailed", pkg, arts, file, <<"resume_crew">>)
    ELSE LET ex == ExtractJsonObject(crew.raw)
         IN  IF ex.err /= "none"
             THEN Outcome("raise", ex.err, pkg, arts, file, <<"resume_crew">>)
             ELSE LET set == SetOutputsFrom(pkg, ex.obj, FALSE, crew.pdf)
                  IN  IF set.err /= "none"
                      THEN Outcome("raise", set.err, set.pkg, arts, file,
                                   <<"resume_crew">>)
                      ELSE Outcome("ok", "none", set.pkg,
                                   WriteResumeArtifacts(set.pkg, now),
                                   SaveResumeCache(set.pkg, now),
                                   <<"resume_crew", "set_outputs",
                                     "write_artifacts", "cache_save">>)

\* A variant that calls the collaborator a second time when it raises.
StageReviewUpdateRenderPdf_RetriesCrew(pkg, crew, arts, file, now) ==
    IF crew.kind = "raise"
    THEN Outcome("raise", "CrewFailed", pkg, arts, file,
                 <<"resume_crew", "resume_crew">>)
    ELSE LET ex == ExtractJsonObject(crew.raw)
         IN  IF ex.err /= "none"
             THEN Outcome("raise", ex.err, pkg, arts, file, <<"resume_crew">>)
             ELSE IF RequiredKeys \ ex.obj.keys /= {}
             THEN Outcome("raise", "SchemaViolation", pkg, arts, file,
                          <<"resume_crew">>)
             ELSE LET set == SetOutputsFrom(pkg, ex.obj, FALSE, crew.pdf)
                  IN  IF set.err /= "none"
                      THEN Outcome("raise", set.err, set.pkg, arts, file,
                                   <<"resume_crew">>)
                      ELSE Outcome("ok", "none", set.pkg,
                                   WriteResumeArtifacts(set.pkg, now),
                                   SaveResumeCache(set.pkg, now),
                                   <<"resume_crew", "set_outputs",
                                     "write_artifacts", "cache_save">>)

StageReviewUpdateRenderPdf(pkg, crew, arts, file, now) ==
    IF crew.kind = "raise"
    THEN Outcome("raise", "CrewFailed", pkg, arts, file, <<"resume_crew">>)
    ELSE LET ex == ExtractJsonObject(crew.raw)
         IN  IF ex.err /= "none"
             THEN Outcome("raise", ex.err, pkg, arts, file, <<"resume_crew">>)
             ELSE IF RequiredKeys \ ex.obj.keys /= {}
             THEN Outcome("raise", "SchemaViolation", pkg, arts, file,
                          <<"resume_crew">>)
             ELSE LET set == SetOutputsFrom(pkg, ex.obj, FALSE, crew.pdf)
                  IN  IF set.err /= "none"
                      THEN Outcome("raise", set.err, set.pkg, arts, file,
                                   <<"resume_crew">>)
                      ELSE Outcome("ok", "none", set.pkg,
                                   WriteResumeArtifacts(set.pkg, now),
                                   SaveResumeCache(set.pkg, now),
                                   <<"resume_crew", "set_outputs",
                                     "write_artifacts", "cache_save">>)

\* sorted(required_keys - set(payload.keys())), the keys the message lists
MissingKeysSorted(o) ==
    LET order == <<"feedback_items", "final_resume_text", "updated_pdf_path">>
    IN  SelectSeq(order, LAMBDA k : k \notin o.keys)


\* ------------------------------------------------------------ website
\* A string of the website payload is a sequence of segments: "text" (its body
\* is shown as is), "tag" (any other tag), "link_styles" (a tag that names
\* styles.css), "script_ref" (<script src="script.js"></script>),
\* "script_block" and "style_block". A value that is no string has t /= "str".
Seg(k, body) == [k |-> k, body |-> body]
DV(t, segs) == [t |-> t, segs |-> segs]
WObj(title, html, css, js) == [title |-> title, html |-> html, css |-> css, js |-> js]

RECURSIVE Canon(_)
Canon(t) ==
    IF Len(t) < 2 THEN t
    ELSE IF t[1].c = t[2].c
         THEN Canon(<<Rn(t[1].c, t[1].n + t[2].n)>> \o SubSeq(t, 3, Len(t)))
         ELSE <<t[1]>> \o Canon(Tail(t))

RECURSIVE MarkupToSpace(_)
MarkupToSpace(segs) ==
    IF segs = <<>> THEN <<>>
    ELSE (IF Head(segs).k = "text" THEN Head(segs).body ELSE <<Rn(" ", 1)>>)
         \o MarkupToSpace(Tail(segs))

ExtractVisibleTextFromHtml(segs) ==
    Strip(SubNewlines(SubHSpace(Canon(MarkupToSpace(segs))), 2, 1))

RECURSIVE TakeWhileIn(_, _)
TakeWhileIn(t, cs) ==
    IF t /= <<>> /\ Head(t).c \in cs
    THEN <<Head(t)>> \o TakeWhileIn(Tail(t), cs)
    ELSE <<>>

\* str.lower()
LowerChar(c) ==
    CASE c = "A" -> "a"
      [] c = "B" -> "b"
      [] OTHER -> c
Lower(t) == Canon([i \in 1..Len(t) |-> Rn(LowerChar(t[i].c), t[i].n)])

\* re.findall(r"[a-z0-9]+", s)
RECURSIVE FindAlnum(_)
FindAlnum(t) ==
    IF t = <<>> THEN <<>>
    ELSE IF Head(t).c \in AlnumChars
         THEN <<TakeWhileIn(t, AlnumChars)>> \o FindAlnum(DropWhileIn(t, AlnumChars))
         ELSE FindAlnum(Tail(t))

\* _tokens
Tokens(t) == FindAlnum(Lower(t))

\* A variant that counts each matched token once.
ContentOverlapRatio_DistinctMatches(source_text, generated_text) ==
    LET src == {Tokens(source_text)[i] : i \in 1..Len(Tokens(source_text))}
        gen == Tokens(generated_text)
    IN  IF gen = <<>> THEN [num |-> 0, den |-> 1]
        ELSE [num |-> Cardinality({gen[i] : i \in 1..Len(gen)} \cap src),
              den |-> Len(gen)]

\* The ratio as a fraction num / den; 0.0 is 0 / 1.
ContentOverlapRatio(source_text, generated_text) ==
    LET src == {Tokens(source_text)[i] : i \in 1..Len(Tokens(source_text))}
        gen == Tokens(generated_text)
    IN  IF gen = <<>> THEN [num |-> 0, den |-> 1]
        ELSE [num |-> Cardinality({i \in 1..Len(gen) : gen[i] \in src}),
              den |-> Len(gen)]

\* not isinstance(value, str) or not value.strip()
MissingOrBlank(v) ==
    v.t /= "str" \/ \A i \in 1..Len(v.segs) :
                        v.segs[i].k = "text" /\ Strip(v.segs[i].body) = <<>>

HasSeg(v, k) == \E i \in 1..Len(v.segs) : v.segs[i].k = k

\* payload["html"].lower(): the text in lower case, and a reference written in
\* capitals ("link_styles_upper" names STYLES.CSS, "script_ref_upper" names
\* SCRIPT.JS) the reference in lower case.
LowerSeg(s) ==
    CASE s.k = "link_styles_upper" -> Seg("link_styles", s.body)
      [] s.k = "script_ref_upper" -> Seg("script_ref", s.body)
      [] OTHER -> Seg(s.k, Lower(s.body))
LowerDoc(v) == DV(v.t, [i \in 1..Len(v.segs) |-> LowerSeg(v.segs[i])])

\* A variant that looks at css before html.
IsValidWebsitePayload_CssBeforeHtml(w) ==
    IF MissingOrBlank(w.title) THEN [valid |-> FALSE, reason |-> "title"]
    ELSE IF MissingOrBlank(w.css) THEN [valid |-> FALSE, reason |-> "css"]
    ELSE IF MissingOrBlank(w.html) THEN [valid |-> FALSE, reason |-> "html"]
    ELSE IF MissingOrBlank(w.js) THEN [valid |-> FALSE, reason |-> "js"]
    ELSE IF ~HasSeg(LowerDoc(w.html), "link_styles")
    THEN [valid |-> FALSE, reason |-> "styles.css"]
    ELSE IF ~HasSeg(LowerDoc(w.html), "script_ref")
    THEN [valid |-> FALSE, reason |-> "script.js"]
    ELSE [valid |-> TRUE, reason |-> ""]

\* The reason is the name the message quotes.
IsValidWebsitePayload(w) ==
    IF MissingOrBlank(w.title) THEN [valid |-> FALSE, reason |-> "title"]
    ELSE IF MissingOrBlank(w.html) THEN [valid |-> FALSE, reason |-> "html"]
    ELSE IF MissingOrBlank(w.css) THEN [valid |-> FALSE, reason |-> "css"]
    ELSE IF MissingOrBlank(w.js) THEN [valid |-> FALSE, reason |-> "js"]
    ELSE IF ~HasSeg(LowerDoc(w.html), "link_styles")
    THEN [valid |-> FALSE, reason |-> "styles.css"]
    ELSE IF ~HasSeg(LowerDoc(w.html), "script_ref")
    THEN [valid |-> FALSE, reason |-> "script.js"]
    ELSE [valid |-> TRUE, reason |-> ""]

NoWebsite == [present |-> FALSE, title |-> <<>>]
NoBuildMeta ==
    [exists |-> FALSE, generated_at_utc |-> 0, flow_path |-> "", flow_version |-> "",
     cache |-> [key |-> NoKey, hit |-> FALSE],
     resume |-> [source_pdf_path |-> "", source_pdf_hash |-> "", updated_pdf_path |-> ""],
     website |-> NoWebsite]

WriteBuildMetadata(user_path, pkg, extra, now) ==
    [exists |-> TRUE, generated_at_utc |-> now, flow_path |-> user_path,
     flow_version |-> pkg.flow_version,
     cache |-> [key |-> pkg.cache_key, hit |-> pkg.cache_hit],
     resume |-> [source_pdf_path |-> pkg.source_pdf_path,
                 source_pdf_hash |-> pkg.source_pdf_hash,
                 updated_pdf_path |-> pkg.updated_pdf_path],
     website |-> extra]

\* docs/index.html, styles.css, script.js and docs/build_meta.json
NoSite ==
    [exists |-> FALSE, html |-> <<>>, css |-> <<>>, js |-> <<>>,
     meta |-> [generated_at_utc |-> 0, updated_resume_pdf |-> ""]]

SiteOutcome(err, site, meta, events) ==
    [err |-> err, site |-> site, meta |-> meta, events |-> events]

\* A variant that rejects below 0.6 instead of 0.7.
CreateWebsiteWithResumeReview_LowThreshold(user_path, pkg, wcrew, site, meta, now) ==
    IF wcrew.kind = "raise"
    THEN SiteOutcome("CrewFailed", site, meta, <<"website_crew">>)
    ELSE LET ex == ExtractJsonObject(wcrew.raw)
         IN  IF ex.err /= "none"
             THEN SiteOutcome(ex.err, site, meta, <<"website_crew">>)
             ELSE IF ~IsValidWebsitePayload(ex.obj).valid
             THEN SiteOutcome("WebsiteInvalid", site, meta, <<"website_crew">>)
             ELSE LET visible == ExtractVisibleTextFromHtml(ex.obj.html.segs)
                      overlap == ContentOverlapRatio(pkg.final_resume_text, visible)
                  IN  IF 10 * overlap.num < 6 * overlap.den
                      THEN SiteOutcome("ContentFidelityViolation", site, meta,
                                       <<"website_crew">>)
                      ELSE SiteOutcome("none",
                               [exists |-> TRUE, html |-> ex.obj.html.segs,
                                css |-> ex.obj.css.segs, js |-> ex.obj.js.segs,
                                meta |-> [generated_at_utc |-> now,
                                          updated_resume_pdf |-> pkg.updated_pdf_path]],
                               WriteBuildMetadata(user_path, pkg,
                                   [present |-> TRUE, title |-> ex.obj.title.segs], now),
                               <<"website_crew", "site_write", "build_meta",
                                 "docs_meta">>)


\* wcrew: what WebsiteCrew().crew().kickoff(...) does (it raises, or returns raw).
CreateWebsiteWithResumeReview(user_path, pkg, wcrew, site, meta, now) ==
    IF wcrew.kind = "raise"
    THEN SiteOutcome("CrewFailed", site, meta, <<"website_crew">>)
    ELSE LET ex == ExtractJsonObject(wcrew.raw)
         IN  IF ex.err /= "none"
             THEN SiteOutcome(ex.err, site, meta, <<"website_crew">>)
             ELSE IF ~IsValidWebsitePayload(ex.obj).valid
             THEN SiteOutcome("WebsiteInvalid", site, meta, <<"website_crew">>)
             ELSE LET visible == ExtractVisibleTextFromHtml(ex.obj.html.segs)
                      overlap == ContentOverlapRatio(pkg.final_resume_text, visible)
                  IN  IF 10 * overlap.num < 7 * overlap.den
                      THEN SiteOutcome("ContentFidelityViolation", site, meta,
                                       <<"website_crew">>)
                      ELSE SiteOutcome("none",
                               [exists |-> TRUE, html |-> ex.obj.html.segs,
                                css |-> ex.obj.css.segs, js |-> ex.obj.js.segs,
                                meta |-> [generated_at_utc |-> now,
                                          updated_resume_pdf |-> pkg.updated_pdf_path]],
                               WriteBuildMetadata(user_path, pkg,
                                   [present |-> TRUE, title |-> ex.obj.title.segs], now),
                               <<"website_crew", "site_write", "build_meta",
                                 "docs_meta">>)


\* ----------------------------------------------------- start_conversation
\* A string the user or the trigger supplies: its text, and what _classify_path
\* finds in it: token is re.sub(r"[^a-z_]", "", raw), web and res say whether a
\* website keyword and a resume keyword occur in it.
U(text, token, web, res) == [text |-> text, token |-> token, web |-> web, res |-> res]

\* None is "".
ClassifyPath(u) ==
    IF Strip(u.text) = <<>> THEN ""
    ELSE IF u.token \in {"update_resume", "updateresume"} THEN UPDATE_RESUME
    ELSE IF u.token \in {"create_website", "createwebsite"} THEN CREATE_WEBSITE
    ELSE IF u.web THEN CREATE_WEBSITE
    ELSE IF u.res THEN UPDATE_RESUME
    ELSE ""

StripU(u) == [u EXCEPT !.text = Strip(@)]
\* a or b
OrU(a, b) == IF a.text /= <<>> THEN a ELSE b

\* trigger: the payload's user_path, path, action, user_request, user_action
\* (an absent key is the empty string); path_input and request_input are what
\* the user types when prompted.
StartConversation(trigger, path_input, request_input) ==
    LET triggered_path ==
            OrU(StripU(trigger.user_path),
                OrU(StripU(trigger.path), StripU(trigger.action)))
        triggered_request ==
            OrU(StripU(trigger.user_request), StripU(trigger.user_action))
        route_signal == OrU(triggered_path, triggered_request)
        classified_path == ClassifyPath(route_signal)
        user_path ==
            IF classified_path /= "" THEN classified_path
            ELSE ClassifyPath(StripU(path_input))
        user_request ==
            IF triggered_request.text /= <<>> THEN triggered_request.text
            ELSE Strip(request_input.text)
    IN  IF user_path = ""
        THEN [err |-> "RouteUnclassified", user_path |-> "", user_request |-> <<>>]
        ELSE [err |-> "none", user_path |-> user_path, user_request |-> user_request]

\* route_flow and route_after_resume_pipeline: the event returned, "" when the
\* router raises.
RouteFlow(user_path) ==
    IF user_path \in {UPDATE_RESUME, CREATE_WEBSITE} THEN RESUME_PIPELINE ELSE ""

\* A variant that goes on to the website whatever the path is.
RouteAfterResumePipeline_AlwaysWebsite(user_path) ==
    IF user_path \in {UPDATE_RESUME, CREATE_WEBSITE} THEN CREATE_WEBSITE ELSE ""

RouteAfterResumePipeline(user_path) ==
    IF user_path = UPDATE_RESUME THEN UPDATE_RESUME
    ELSE IF user_path = CREATE_WEBSITE THEN CREATE_WEBSITE
    ELSE ""


\* ------------------------------------------------------------ inputs
\* Texts a resume payload may carry.
GoodText == <<Rn("a", 120), Rn(" ", 1), Rn("1", 80)>>
PaddedText == <<Rn(" ", 2), Rn("a", 200), Rn("\n", 4), Rn("b", 50), Rn("\t", 3)>>
ShortText == <<Rn("a", 199)>>
SparseText == <<Rn("a", 80), Rn("1", 120)>>
InflatedText == <<Rn("a", 150), Rn(" ", 100)>>

GoodItem == Item("obj", FeedbackKeys)
PartialItem == Item("obj", {"category", "issue"})
NumItem == Item("num", {})
NoList == LV("list", <<>>)
OneUpdate == LV("list", <<TV("str", <<Rn("b", 3)>>), TV("num", <<>>)>>)

Payload(keys, text, path, items, applied) ==
    Obj(keys, text, PV("str", path), items, applied, NoList, NoMeta)

AllPayloadKeys == RequiredKeys \cup UpdateKeys
OGood == Payload(AllPayloadKeys, TV("str", GoodText), OutputPdfPath,
                 IV("list", <<GoodItem, GoodItem>>), OneUpdate)
OPadded == Payload(RequiredKeys, TV("str", PaddedText), AbsOutputPdf,
                   IV("list", <<GoodItem>>), NoList)
OShort == Payload(RequiredKeys, TV("str", ShortText), OutputPdfPath,
                  IV("list", <<GoodItem>>), NoList)
OSparse == Payload(RequiredKeys, TV("str", SparseText), OutputPdfPath,
                   IV("list", <<GoodItem>>), NoList)
OInflated == Payload(RequiredKeys, TV("str", InflatedText), OutputPdfPath,
                     IV("list", <<GoodItem>>), NoList)
ONumText == Payload(RequiredKeys, TV("num", <<>>), OutputPdfPath,
                    IV("list", <<GoodItem>>), NoList)
OMissingKeys == Payload({"final_resume_text", "applied_user_updates"},
                        TV("str", GoodText), OutputPdfPath, IV("null", <<>>), NoList)
ONoPdf == Payload(RequiredKeys, TV("str", GoodText), MissingPdfPath,
                  IV("list", <<GoodItem>>), NoList)
OEmptyFeedback == Payload(RequiredKeys, TV("str", GoodText), OutputPdfPath,
                          IV("list", <<>>), NoList)
ONotListFeedback == Payload(RequiredKeys, TV("str", GoodText), OutputPdfPath,
                            IV("obj", <<>>), NoList)
OBadItems == Payload(RequiredKeys, TV("str", GoodText), OutputPdfPath,
                     IV("list", <<GoodItem, PartialItem, NumItem>>), NoList)
OBadList == Payload(AllPayloadKeys, TV("str", GoodText), OutputPdfPath,
                    IV("list", <<GoodItem>>), LV("num", <<>>))

ResumeObjects ==
    {OGood, OPadded, OShort, OSparse, OInflated, ONumText, OMissingKeys, ONoPdf,
     OEmptyFeedback, ONotListFeedback, OBadItems, OBadList, EmptyObj}

\* Raw texts, by example (o stands for the JSON text of an object):
\*   RDirect         ' o '
\*   RFenced         '```json\n o \n```'
\*   RNoise          'noise o trailing'
\*   RNoBraces       'no braces at all'
\*   RBadBraces      '{not json}'
\*   RBadFence       '```json\n{oops}\n```'
\*   RFenceInString  'Result: o', a string of o holding '```{x}```'
\*   RFenceEmptyObj  'Result: o', a string of o holding '```{}```'
\*   RList           '[ o ]'
\*   RTwoObjects     '[ o , o ]'
\*   RNumber         '42'
RDirect(o, null) == Raw(P("obj", o), P("none", null), P("obj", o))
RFenced(o, null) == Raw(P("bad", null), P("obj", o), P("obj", o))
RNoise(o, null) == Raw(P("bad", null), P("none", null), P("obj", o))
RNoBraces(null) == Raw(P("bad", null), P("none", null), P("none", null))
RBadBraces(null) == Raw(P("bad", null), P("none", null), P("bad", null))
RBadFence(null) == Raw(P("bad", null), P("bad", null), P("bad", null))
RFenceInString(o, null) == Raw(P("bad", null), P("bad", null), P("obj", o))
RFenceEmptyObj(o, null) == Raw(P("bad", null), P("obj", null), P("obj", o))
RList(o, null) == Raw(P("nonobj", null), P("none", null), P("obj", o))
RTwoObjects(null) == Raw(P("nonobj", null), P("none", null), P("bad", null))
RNumber(null) == Raw(P("nonobj", null), P("none", null), P("none", null))

\* The raw texts the resume crew returns in the pipeline.
ResumeRaws ==
    {RDirect(o, EmptyObj) : o \in ResumeObjects}
    \cup {RFenceInString(OGood, EmptyObj), RNoBraces(EmptyObj), RBadBraces(EmptyObj),
          RNumber(EmptyObj)}

\* What the crew's write tool renders: the text of the payload it reports.
RenderedText(raw) ==
    NormalizeText(StrText(raw.brace.o.final_resume_text))

RenderingRaws ==
    {RDirect(o, EmptyObj) : o \in {OGood, OPadded, OBadItems, OEmptyFeedback}}

\* The crew raises, or returns a raw text having rendered the PDF or not.
ResumeCrewResults(pdf) ==
    {CrewResult("raise", RNoBraces(EmptyObj), pdf)}
    \cup {CrewResult("ok", raw, pdf) : raw \in ResumeRaws}
    \cup {CrewResult("ok", raw, [exists |-> TRUE, text |-> RenderedText(raw)]) :
            raw \in RenderingRaws}

\* The record file as something other than this program may leave it.
ForeignFiles ==
    {[kind |-> k, o |-> EmptyObj] : k \in {"undecodable", "unparseable", "nonobject"}}
    \cup {[kind |-> "object", o |-> o] :
            o \in {OGood, OShort, OMissingKeys, ONoPdf, OEmptyFeedback,
                   ONotListFeedback, OBadItems, OBadList}}

RECURSIVE Words(_)
Words(toks) ==
    IF toks = <<>> THEN <<>>
    ELSE IF Len(toks) = 1 THEN Head(toks)
    ELSE Head(toks) \o <<Rn(" ", 1)>> \o Words(Tail(toks))

TokA == <<Rn("a", 120)>>
TokD == <<Rn("1", 80)>>
TokX == <<Rn("b", 3)>>
TokY == <<Rn("b", 4), Rn("1", 1)>>
TokZ == <<Rn("b", 5)>>
VisAll == Words(<<TokA, TokD>>)
Vis7of10 == Words(<<TokA, TokX, TokD, TokA, TokY, TokD, TokA, TokZ, TokD, TokA>>)
Vis2of3 == Words(<<TokA, TokX, TokD>>)

StrOk == DV("str", <<Seg("text", <<Rn("a", 5)>>)>>)
Html(vis) ==
    DV("str", <<Seg("tag", <<>>), Seg("link_styles", <<>>), Seg("style_block", <<>>),
                Seg("text", <<Rn("\n", 1)>> \o vis \o <<Rn("\t", 2)>>),
                Seg("script_block", <<>>), Seg("script_ref", <<>>), Seg("tag", <<>>)>>)
WNull == WObj(DV("absent", <<>>), DV("absent", <<>>), DV("absent", <<>>), DV("absent", <<>>))
WGood(vis) == WObj(StrOk, Html(vis), StrOk, StrOk)
WNoStyles ==
    WObj(StrOk, DV("str", <<Seg("text", VisAll), Seg("script_ref", <<>>)>>), StrOk, StrOk)
WBlankCss == WObj(StrOk, Html(VisAll), DV("str", <<Seg("text", <<Rn(" ", 2)>>)>>), StrOk)
WNoTitle == WObj(DV("absent", <<>>), Html(VisAll), StrOk, StrOk)
WebsiteObjects ==
    {WGood(VisAll), WGood(Vis7of10), WGood(Vis2of3), WGood(<<>>), WNoStyles, WBlankCss,
     WNoTitle}

WebsiteCrewResults ==
    {CrewResult("raise", RNoBraces(WNull), NoPdf)}
    \cup {CrewResult("ok", RDirect(w, WNull), NoPdf) :
            w \in {WGood(VisAll), WGood(Vis7of10), WGood(Vis2of3), WNoStyles}}
    \cup {CrewResult("ok", RBadBraces(WNull), NoPdf)}

\* Strings of the trigger payload and of the prompts.
SEmpty == U(<<>>, "", FALSE, FALSE)
SUpdate == U(<<Rn("a", 6), Rn(".", 1), Rn("a", 6)>>, "update_resume", FALSE, TRUE)
SCreate == U(<<Rn(" ", 1), Rn("a", 13)>>, "createwebsite", TRUE, FALSE)
SCert == U(<<Rn("a", 3), Rn(" ", 2), Rn("a", 3), Rn("\t", 1), Rn("a", 4)>>,
           "addawscert", FALSE, FALSE)
SCertTidy == U(<<Rn("a", 3), Rn(" ", 1), Rn("a", 3), Rn(" ", 1), Rn("a", 4), Rn(" ", 1)>>,
               "addawscert", FALSE, FALSE)
SSite == U(<<Rn("a", 7), Rn(" ", 1), Rn("a", 6), Rn(" ", 1), Rn("a", 7)>>,
           "improveresumewebsite", TRUE, TRUE)

Trigger(user_path, path, action, user_request, user_action) ==
    [user_path |-> user_path, path |-> path, action |-> action,
     user_request |-> user_request, user_action |-> user_action]
Triggers ==
    {Trigger(SEmpty, SEmpty, SEmpty, SEmpty, SEmpty),
     Trigger(SUpdate, SEmpty, SEmpty, SCert, SEmpty),
     Trigger(SEmpty, SCreate, SEmpty, SEmpty, SCertTidy),
     Trigger(SEmpty, SEmpty, SCert, SEmpty, SEmpty)}
PathInputs == {SCreate, SCert}
RequestInputs == {SSite}

SourceBytes == {"pdfA"}
RequestTexts == {SCert.text, SSite.text}
AllKeys ==
    {CacheKey(FLOW_VERSION, Sha256Hex(b), NormalizeText(t)) :
        b \in SourceBytes, t \in RequestTexts}
\* The record file the environment changes.
EnvKey == CacheKey(FLOW_VERSION, Sha256Hex("pdfA"), NormalizeText(SCert.text))

\* ------------------------------------------------------------ state
VARIABLES
    pc,          \* where the flow of the current run stands
    runNo,       \* the number of the current run; it is the clock of timestamps
    events,      \* runs started and files changed by the environment, so far
    user_path, user_request, package,   \* ResumeState
    err,         \* the exception that ended the run, "none" if none
    failedAt,    \* the stage that raised it
    log,         \* the steps of the current run, in order
    extracted,   \* the last call of _extract_json_object: its input and result
    loaded,      \* what _load_resume_cache found and returned in this run
    source,      \* the source PDF
    cacheFiles,  \* the record file of each cache key
    programWrote,\* the keys whose record file is as this program saved it
    updatedPdf,  \* the PDF at the fixed output path
    artifacts,   \* review.json and feedback.txt
    buildMeta,   \* artifacts/build_meta.json
    site,        \* the site files and docs/build_meta.json
    fn,          \* a function applied on its own: its name, arguments and result
    race         \* two runs at once on one record file: where each stands, the file

runVars == <<user_path, user_request, package, err, failedAt, log, extracted, loaded>>
fileVars == <<source, cacheFiles, programWrote, updatedPdf, artifacts, buildMeta, site>>
vars == <<pc, runNo, events, runVars, fileVars, fn, race>>

NoFn == [op |-> "", args |-> <<>>, out |-> <<>>]
RaceProcs == {1, 2}
NoRace ==
    [on |-> FALSE, exists |-> FALSE, content |-> <<>>, last |-> 0,
     procs |-> [p \in RaceProcs |-> [pc |-> "", rec |-> NoFile, pos |-> 0, res |-> ""]]]
NoExtract == [stage |-> "", raw |-> RNoBraces(EmptyObj), err |-> "none", obj |-> EmptyObj]
NoLoad == [done |-> FALSE, file |-> NoFile, pdfThere |-> FALSE, intact |-> FALSE,
           res |-> "", before |-> InitPackage]

Init ==
    /\ pc = "idle"
    /\ runNo = 0
    /\ events = 0
    /\ user_path = ""
    /\ user_request = <<>>
    /\ package = InitPackage
    /\ err = "none"
    /\ failedAt = ""
    /\ log = <<>>
    /\ extracted = NoExtract
    /\ loaded = NoLoad
    /\ source = [exists |-> TRUE, bytes |-> "pdfA"]
    /\ cacheFiles = [k \in AllKeys |-> NoFile]
    /\ programWrote = {}
    /\ updatedPdf = NoPdf
    /\ artifacts = NoArtifacts
    /\ buildMeta = NoBuildMeta
    /\ site = NoSite
    /\ fn = NoFn
    /\ race = NoRace

Between == pc = "idle"

Fail(stage, e) ==
    /\ pc' = "failed"
    /\ err' = e
    /\ failedAt' = stage

\* kickoff(): a new ResumeFlow with a fresh state
Kickoff ==
    /\ pc = "idle"
    /\ events < MaxEvents
    /\ pc' = "start"
    /\ runNo' = runNo + 1
    /\ events' = events + 1
    /\ UNCHANGED <<runVars, fileVars>>
    /\ UNCHANGED <<fn, race>>

\* The process ends, with the flow finished or with the exception.
Exit ==
    /\ pc \in {"done", "failed"}
    /\ pc' = "idle"
    /\ user_path' = ""
    /\ user_request' = <<>>
    /\ package' = InitPackage
    /\ err' = "none"
    /\ failedAt' = ""
    /\ log' = <<>>
    /\ extracted' = NoExtract
    /\ loaded' = NoLoad
    /\ UNCHANGED <<runNo, events, fileVars>>
    /\ UNCHANGED <<fn, race>>

DoStartConversation ==
    /\ pc = "start"
    /\ \E trigger \in Triggers, path_input \in PathInputs, request_input \in RequestInputs :
         LET out == StartConversation(trigger, path_input, request_input)
         IN  IF out.err /= "none"
             THEN /\ Fail("start_conversation", out.err)
                  /\ UNCHANGED <<user_path, user_request>>
             ELSE /\ pc' = "route"
                  /\ user_path' = out.user_path
                  /\ user_request' = out.user_request
                  /\ UNCHANGED <<err, failedAt>>
    /\ UNCHANGED <<runNo, events, package, log, extracted, loaded, fileVars>>
    /\ UNCHANGED <<fn, race>>

DoRouteFlow ==
    /\ pc = "route"
    /\ IF RouteFlow(user_path) = RESUME_PIPELINE
       THEN pc' = "pipeline" /\ UNCHANGED <<err, failedAt>>
       ELSE Fail("route_flow", "UnknownPath")
    /\ UNCHANGED <<runNo, events, user_path, user_request, package, log, extracted,
                   loaded, fileVars>>
    /\ UNCHANGED <<fn, race>>

\* run_resume_pipeline, first call
DoExtractFingerprint ==
    /\ pc = "pipeline"
    /\ LET out == StageExtractResumeFingerprint(package, user_request, source)
       IN  IF out.err /= "none"
           THEN Fail("fingerprint", out.err) /\ package' = out.pkg /\ UNCHANGED log
           ELSE /\ pc' = "fingerprinted"
                /\ package' = out.pkg
                /\ log' = Append(log, "fingerprint")
                /\ UNCHANGED <<err, failedAt>>
    /\ UNCHANGED <<runNo, events, user_path, user_request, extracted, loaded, fileVars>>
    /\ UNCHANGED <<fn, race>>

\* run_resume_pipeline, second call
DoLoadResumeCache ==
    /\ pc = "fingerprinted"
    /\ LET file == cacheFiles[package.cache_key]
           out == LoadResumeCache(package, file, updatedPdf, artifacts, runNo)
       IN  /\ loaded' = [done |-> TRUE, file |-> file,
                         pdfThere |-> file.kind = "object"
                                      /\ PathExists(Resolve(StrPath(file.o.updated_pdf_path)),
                                                    updatedPdf),
                         intact |-> package.cache_key \in programWrote,
                         res |-> out.res, before |-> package]
           /\ package' = out.pkg
           /\ artifacts' = out.arts
           /\ log' = log \o out.events
           /\ IF out.res = "raise"
              THEN Fail("load_cache", out.err)
              ELSE /\ pc' = IF out.res = "hit" THEN "persisted" ELSE "miss"
                   /\ UNCHANGED <<err, failedAt>>
    /\ UNCHANGED <<runNo, events, user_path, user_request, extracted, source,
                   cacheFiles, programWrote, updatedPdf, buildMeta, site>>
    /\ UNCHANGED <<fn, race>>

\* run_resume_pipeline, third call (after a miss)
DoStageReviewUpdateRenderPdf ==
    /\ pc = "miss"
    /\ \E crew \in ResumeCrewResults(updatedPdf) :
         LET key == package.cache_key
             out == StageReviewUpdateRenderPdf(package, crew, artifacts,
                                               cacheFiles[key], runNo)
         IN  /\ updatedPdf' = crew.pdf
             /\ extracted' = IF crew.kind = "raise" THEN extracted
                             ELSE [stage |-> "resume", raw |-> crew.raw,
                                   err |-> ExtractJsonObject(crew.raw).err,
                                   obj |-> ExtractJsonObject(crew.raw).obj]
             /\ package' = out.pkg
             /\ artifacts' = out.arts
             /\ cacheFiles' = [cacheFiles EXCEPT ![key] = out.file]
             /\ programWrote' = IF out.res = "ok" THEN programWrote \cup {key}
                                ELSE programWrote
             /\ log' = log \o out.events
             /\ IF out.res = "raise"
                THEN Fail("review_update_render", out.err)
                ELSE pc' = "persisted" /\ UNCHANGED <<err, failedAt>>
    /\ UNCHANGED <<runNo, events, user_path, user_request, loaded, source,
                   buildMeta, site>>
    /\ UNCHANGED <<fn, race>>

DoRouteAfterResumePipeline ==
    /\ pc = "persisted"
    /\ IF RouteAfterResumePipeline(user_path) = ""
       THEN Fail("route_after_resume_pipeline", "UnknownPath")
       ELSE pc' = RouteAfterResumePipeline(user_path) /\ UNCHANGED <<err, failedAt>>
    /\ UNCHANGED <<runNo, events, user_path, user_request, package, log, extracted,
                   loaded, fileVars>>
    /\ UNCHANGED <<fn, race>>

DoUpdateResumeOnly ==
    /\ pc = UPDATE_RESUME
    /\ buildMeta' = WriteBuildMetadata(user_path, package, NoWebsite, runNo)
    /\ log' = Append(log, "build_meta")
    /\ pc' = "done"
    /\ UNCHANGED <<runNo, events, user_path, user_request, package, err, failedAt,
                   extracted, loaded, source, cacheFiles, programWrote, updatedPdf,
                   artifacts, site>>
    /\ UNCHANGED <<fn, race>>

DoCreateWebsite ==
    /\ pc = CREATE_WEBSITE
    /\ \E wcrew \in WebsiteCrewResults :
         LET out == CreateWebsiteWithResumeReview(user_path, package, wcrew, site,
                                                  buildMeta, runNo)
         IN  /\ extracted' = IF wcrew.kind = "raise" THEN extracted
                             ELSE [stage |-> "website", raw |-> wcrew.raw,
                                   err |-> ExtractJsonObject(wcrew.raw).err,
                                   obj |-> ExtractJsonObject(wcrew.raw).obj]
             /\ site' = out.site
             /\ buildMeta' = out.meta
             /\ log' = log \o out.events
             /\ IF out.err /= "none"
                THEN Fail("create_website", out.err)
                ELSE pc' = "done" /\ UNCHANGED <<err, failedAt>>
    /\ UNCHANGED <<runNo, events, user_path, user_request, package, loaded, source,
                   cacheFiles, programWrote, updatedPdf, artifacts>>
    /\ UNCHANGED <<fn, race>>

\* Between runs, something other than this program changes a file.
EnvWriteCacheFile ==
    /\ Between
    /\ events < MaxEvents
    /\ \E f \in ForeignFiles :
         /\ cacheFiles[EnvKey] /= f
         /\ cacheFiles' = [cacheFiles EXCEPT ![EnvKey] = f]
         /\ programWrote' = programWrote \ {EnvKey}
    /\ events' = events + 1
    /\ UNCHANGED <<pc, runNo, runVars, source, updatedPdf, artifacts, buildMeta, site>>
    /\ UNCHANGED <<fn, race>>

EnvRemovePdf ==
    /\ Between
    /\ events < MaxEvents
    /\ updatedPdf.exists
    /\ updatedPdf' = NoPdf
    /\ events' = events + 1
    /\ UNCHANGED <<pc, runNo, runVars, source, cacheFiles, programWrote, artifacts,
                   buildMeta, site>>
    /\ UNCHANGED <<fn, race>>

EnvRemoveSource ==
    /\ Between
    /\ events < MaxEvents
    /\ source.exists
    /\ source' = NoSource
    /\ events' = events + 1
    /\ UNCHANGED <<pc, runNo, runVars, cacheFiles, programWrote, updatedPdf, artifacts,
                   buildMeta, site>>
    /\ UNCHANGED <<fn, race>>

Next ==
    \/ Kickoff
    \/ Exit
    \/ DoStartConversation
    \/ DoRouteFlow
    \/ DoExtractFingerprint
    \/ DoLoadResumeCache
    \/ DoStageReviewUpdateRenderPdf
    \/ DoRouteAfterResumePipeline
    \/ DoUpdateResumeOnly
    \/ DoCreateWebsite
    \/ EnvWriteCacheFile
    \/ EnvRemovePdf
    \/ EnvRemoveSource

Spec == Init /\ [][Next]_vars

\* ------------------------------------- the extractor on its own
\* Every shape of raw text around every object, for the extractor alone.
ObjectRaws(objs, null) ==
    UNION {{RDirect(o, null), RFenced(o, null), RNoise(o, null),
            RFenceInString(o, null), RFenceEmptyObj(o, null), RList(o, null)} :
           o \in objs}
    \cup {RNoBraces(null), RBadBraces(null), RBadFence(null), RTwoObjects(null),
          RNumber(null)}

InitExtract ==
    /\ Init

ApplyExtract(stage, raws) ==
    /\ pc = "idle"
    /\ \E raw \in raws :
         extracted' = [stage |-> stage, raw |-> raw,
                       err |-> ExtractJsonObject(raw).err,
                       obj |-> ExtractJsonObject(raw).obj]
    /\ pc' = "extracted"
    /\ UNCHANGED <<runNo, events, user_path, user_request, package, err, failedAt, log,
                   loaded, fileVars>>
    /\ UNCHANGED <<fn, race>>

ExtractResumeRaw == ApplyExtract("resume", ObjectRaws(ResumeObjects, EmptyObj))
ExtractWebsiteRaw == ApplyExtract("website", ObjectRaws(WebsiteObjects, WNull))

ForgetExtract ==
    /\ pc = "extracted"
    /\ pc' = "idle"
    /\ extracted' = NoExtract
    /\ UNCHANGED <<runNo, events, user_path, user_request, package, err, failedAt, log,
                   loaded, fileVars>>
    /\ UNCHANGED <<fn, race>>

NextExtract ==
    \/ ExtractResumeRaw
    \/ ExtractWebsiteRaw
    \/ ForgetExtract

SpecExtract == InitExtract /\ [][NextExtract]_vars

\* ------------------------------------- the cache key on its own
\* Request texts as start_conversation leaves them (stripped), some of which
\* differ only in white space.
KeyRequests ==
    {<<>>,
     <<Rn("a", 3), Rn(" ", 1), Rn("b", 3)>>,
     <<Rn("a", 3), Rn(" ", 2), Rn("b", 3)>>,
     <<Rn("a", 3), Rn("\t", 1), Rn("b", 3)>>,
     <<Rn("a", 3), Rn("\n", 2), Rn("b", 3)>>,
     <<Rn("a", 3), Rn("\n", 3), Rn("b", 3)>>,
     <<Rn("a", 3), Rn("b", 3)>>,
     <<Rn("b", 3)>>}
KeyBytes == {"pdfA", "pdfB"}

KeyInput(bytes, request) == [bytes |-> bytes, request |-> request]

\* The key the fingerprint stage gives a fresh package for the input.
KeyOf(in) ==
    StageExtractResumeFingerprint(InitPackage, in.request,
                                  [exists |-> TRUE, bytes |-> in.bytes]).pkg.cache_key

FingerprintTwo ==
    /\ fn.op = ""
    /\ \E b1 \in KeyBytes, b2 \in KeyBytes, r1 \in KeyRequests, r2 \in KeyRequests :
         fn' = [op |-> "fingerprint",
                args |-> <<KeyInput(b1, r1), KeyInput(b2, r2)>>,
                out |-> <<KeyOf(KeyInput(b1, r1)), KeyOf(KeyInput(b2, r2))>>]
    /\ UNCHANGED <<pc, runNo, events, runVars, fileVars, race>>

ForgetFn ==
    /\ fn.op /= ""
    /\ fn' = NoFn
    /\ UNCHANGED <<pc, runNo, events, runVars, fileVars, race>>

NextKey ==
    \/ FingerprintTwo
    \/ ForgetFn

SpecKey == Init /\ [][NextKey]_vars

\* ------------------------------------- save, then load
\* Payloads of every mix of text, feedback items and update lists.
SpacedText ==
    <<Rn("a", 120), Rn(" ", 1), Rn("\t", 2), Rn("b", 80), Rn("\n", 5), Rn("1", 9),
      Rn("\n", 1)>>
OtherUpdate == LV("list", <<TV("str", <<Rn("a", 2), Rn(" ", 2), Rn("b", 1)>>)>>)
RoundTripObjects ==
    {Obj(AllPayloadKeys, TV("str", text), PV("str", OutputPdfPath),
         IV("list", items), applied, skipped, NoMeta) :
       text \in {GoodText, PaddedText, SpacedText},
       items \in {<<GoodItem>>, <<GoodItem, PartialItem, NumItem>>},
       applied \in {NoList, OneUpdate},
       skipped \in {NoList, OtherUpdate}}
RoundTripInputs ==
    {KeyInput(b, r) : b \in KeyBytes,
                      r \in {<<>>, <<Rn("a", 3), Rn(" ", 2), Rn("b", 3)>>, <<Rn("b", 3)>>}}

\* A run generates from the payload o, saves the record and writes the build
\* metadata; the next run, with the same fingerprint and user path and with the
\* record and the rendered PDF as the first left them (and the artifacts
\* directory emptied), loads it and writes the build metadata.
SaveThenLoad ==
    /\ fn.op = ""
    /\ \E o \in ResumeObjects \cup RoundTripObjects, in \in RoundTripInputs :
         LET fp == StageExtractResumeFingerprint(
                       InitPackage, in.request,
                       [exists |-> TRUE, bytes |-> in.bytes]).pkg
             raw == RDirect(o, EmptyObj)
             pdf == [exists |-> TRUE, text |-> RenderedText(raw)]
             gen == StageReviewUpdateRenderPdf(fp, CrewResult("ok", raw, pdf),
                                               NoArtifacts, NoFile, 1)
             ld == LoadResumeCache(fp, gen.file, pdf, NoArtifacts, 2)
         IN  /\ gen.res = "ok"
             /\ \E path \in {UPDATE_RESUME, CREATE_WEBSITE} :
                  fn' = [op |-> "save_load",
                         args |-> <<gen.pkg, gen.file, gen.arts,
                                    WriteBuildMetadata(path, gen.pkg, NoWebsite, 1)>>,
                         out |-> <<ld, WriteBuildMetadata(path, ld.pkg, NoWebsite, 2)>>]
    /\ UNCHANGED <<pc, runNo, events, runVars, fileVars, race>>

NextRoundTrip ==
    \/ SaveThenLoad
    \/ ForgetFn

SpecRoundTrip == Init /\ [][NextRoundTrip]_vars

\* ------------------------------------------------------------ pdf tool
Max(a, b) == IF a >= b THEN a ELSE b

\* _wrap_line. A line is the sequence of its words (line.split()), a word is
\* its number of characters; a segment is the sequence of the pieces that
\* single spaces join, the empty string being the segment of no piece.
MaxChars == 100

\* sum(s), by halves
RECURSIVE SumSeq(_)
SumSeq(s) ==
    IF Len(s) = 0 THEN 0
    ELSE IF Len(s) = 1 THEN s[1]
    ELSE SumSeq(SubSeq(s, 1, Len(s) \div 2))
         + SumSeq(SubSeq(s, Len(s) \div 2 + 1, Len(s)))

\* len() of a segment
SegLen(seg) == IF seg = <<>> THEN 0 ELSE SumSeq(seg) + Len(seg) - 1

\* textwrap.wrap(word, width) of one word (no white space, no hyphen): parts
\* of width characters, the rest last.
RECURSIVE HardSplit(_, _)
HardSplit(w, width) ==
    IF w <= width THEN << <<w>> >>
    ELSE << <<width>> >> \o HardSplit(w - width, width)

\* The loop over the words, with current and wrapped as the code names them.
RECURSIVE WrapWords(_, _, _, _)
WrapWords(words, current, wrapped, max_chars) ==
    IF words = <<>>
    THEN IF current /= <<>> THEN Append(wrapped, current) ELSE wrapped
    ELSE LET word == Head(words)
             candidate == Append(current, word)
         IN  IF SegLen(candidate) <= max_chars
             THEN WrapWords(Tail(words), candidate, wrapped, max_chars)
             ELSE IF current /= <<>>
             THEN WrapWords(Tail(words), <<word>>, Append(wrapped, current), max_chars)
             ELSE WrapWords(Tail(words), <<>>,
                            wrapped \o HardSplit(word, Max(8, max_chars)), max_chars)

WrapLine(words, max_chars) ==
    IF words = <<>> THEN << <<>> >>
    ELSE WrapWords(words, <<>>, <<>>, max_chars)

\* _escape_pdf_text. A line is a run-length text over "a" (one byte),
\* "u" (a letter of two bytes in UTF-8), "(", ")" and "\\"; the escaped text
\* has the units "\\\\", "\\(" and "\\)" of two bytes each.
EscapeChar(c) ==
    CASE c = "\\" -> "\\\\"
      [] c = "(" -> "\\("
      [] c = ")" -> "\\)"
      [] OTHER -> c

EscapePdfText(t) == [i \in 1..Len(t) |-> Rn(EscapeChar(t[i].c), t[i].n)]

\* len(s.encode("utf-8"))
RECURSIVE Utf8Len(_)
Utf8Len(t) ==
    IF t = <<>> THEN 0
    ELSE (IF Head(t).c = "a" THEN Head(t).n ELSE 2 * Head(t).n) + Utf8Len(Tail(t))

\* the number of characters of f"{n}"
RECURSIVE Digits(_)
Digits(n) == IF n < 10 THEN 1 ELSE 1 + Digits(n \div 10)

\* _build_simple_text_pdf
PageHeight == 792
Margin == 48
LineHeight == 14
LinesPerPage == Max(1, (PageHeight - 2 * Margin) \div LineHeight)

\* [lines[i : i + per_page] for i in range(0, len(lines), per_page)]
RECURSIVE Chunks(_, _)
Chunks(lines, per_page) ==
    IF lines = <<>> THEN <<>>
    ELSE IF Len(lines) <= per_page THEN <<lines>>
    ELSE <<SubSeq(lines, 1, per_page)>>
         \o Chunks(SubSeq(lines, per_page + 1, Len(lines)), per_page)

\* A variant without the page for the empty list.
PagesOf_NoEmptyPage(lines) == Chunks(lines, LinesPerPage)

\* ... or [[]]
PagesOf(lines) ==
    IF Chunks(lines, LinesPerPage) = <<>> THEN << <<>> >>
    ELSE Chunks(lines, LinesPerPage)

\* A variant that numbers the pages 4, 5, 6, ...
PageObjNum_Dense(idx) == 4 + idx

PageObjNum(idx) == 4 + idx * 2
ContentObjNum(idx) == 5 + idx * 2

\* An object body: its kind, the object numbers it refers to in order (N 0 R),
\* the /Count it states, the texts its stream shows, and its length in bytes.
Body(k, refs, count, shown, len) ==
    [k |-> k, refs |-> refs, count |-> count, shown |-> shown, len |-> len]

CatalogBody == Body("catalog", <<2>>, 0, <<>>, 33)
FontBody == Body("font", <<>>, 0, <<>>, 54)

\* "<< /Type /Pages /Kids [" kids "] /Count " n " >>", the kids joined by spaces
PagesBody(n_pages) ==
    LET kids == [i \in 1..n_pages |-> PageObjNum(i - 1)]
    IN  Body("pages", kids, n_pages, <<>>,
             23 + SumSeq([i \in 1..n_pages |-> Digits(kids[i]) + 4])
                + Max(0, n_pages - 1) + 9 + Digits(n_pages) + 3)

PageBody(content_obj_num) ==
    Body("page", <<2, 3, content_obj_num>>, 0, <<>>, 102 + Digits(content_obj_num) + 7)

\* BT, /F1 11 Tf, 14 TL, 48 744 Td, then "(line) Tj" and "T*" for each line,
\* then ET, joined by newlines; len(content_stream) in bytes.
StreamLen(page_lines) ==
    LET ops == <<2, 9, 5, 9>>
               \o [i \in 1..(2 * Len(page_lines)) |->
                     IF i % 2 = 1
                     THEN Utf8Len(EscapePdfText(page_lines[(i + 1) \div 2])) + 5
                     ELSE 2]
               \o <<2>>
    IN  SumSeq(ops) + Len(ops) - 1

\* "<< /Length n >>\nstream\n" content_stream "\nendstream"
ContentBody(page_lines) ==
    Body("content", <<>>, 0,
         [i \in 1..Len(page_lines) |-> EscapePdfText(page_lines[i])],
         11 + Digits(StreamLen(page_lines)) + 11 + StreamLen(page_lines) + 10)

\* The objects in the order the code appends them.
RECURSIVE PageObjects(_, _)
PageObjects(pages, idx) ==
    IF idx >= Len(pages) THEN <<>>
    ELSE <<[num |-> PageObjNum(idx), body |-> PageBody(ContentObjNum(idx))],
           [num |-> ContentObjNum(idx), body |-> ContentBody(pages[idx + 1])]>>
         \o PageObjects(pages, idx + 1)

Objects(pages) ==
    <<[num |-> 1, body |-> CatalogBody],
      [num |-> 2, body |-> PagesBody(Len(pages))],
      [num |-> 3, body |-> FontBody]>>
    \o PageObjects(pages, 0)

\* objects.sort(key=lambda item: item[0]), a stable sort
RECURSIVE InsertByNum(_, _)
InsertByNum(sorted, obj) ==
    IF sorted = <<>> THEN <<obj>>
    ELSE IF sorted[Len(sorted)].num <= obj.num THEN Append(sorted, obj)
    ELSE Append(InsertByNum(SubSeq(sorted, 1, Len(sorted) - 1), obj),
                sorted[Len(sorted)])

RECURSIVE SortByNum(_)
SortByNum(objs) ==
    IF objs = <<>> THEN <<>>
    ELSE InsertByNum(SortByNum(SubSeq(objs, 1, Len(objs) - 1)), objs[Len(objs)])

\* A piece of the output: the header, "N 0 obj\n", a body, "\nendobj\n".
Piece(k, num, body, len) == [k |-> k, num |-> num, body |-> body, len |-> len]
NoBody == Body("", <<>>, 0, <<>>, 0)
HeaderPiece == Piece("header", 0, NoBody, 15)

\* A variant that leaves the "\nendobj\n" of the blob out of the count.
ObjBlobLen_NoEndobj(obj) == Digits(obj.num) + 7 + obj.body.len

\* len(obj_blob)
ObjBlobLen(obj) == Digits(obj.num) + 7 + obj.body.len + 8

\* The loop that emits the objects: parts, offsets and cursor as the code has
\* them after it.
RECURSIVE EmitObjects(_, _, _, _)
EmitObjects(objects, parts, offsets, cursor) ==
    IF objects = <<>>
    THEN [parts |-> parts, offsets |-> offsets, cursor |-> cursor]
    ELSE LET obj == Head(objects)
         IN  EmitObjects(Tail(objects),
                 parts \o <<Piece("objhead", obj.num, NoBody, Digits(obj.num) + 7),
                            Piece("body", obj.num, obj.body, obj.body.len),
                            Piece("endobj", obj.num, NoBody, 8)>>,
                 [offsets EXCEPT ![obj.num] = cursor],
                 cursor + ObjBlobLen(obj))

\* The bytes returned: the parts before the cross-reference section, the
\* section ("xref", "0 size", one entry per line) and the trailer.
BuildSimpleTextPdf(lines) ==
    LET pages == PagesOf(lines)
        max_obj_num == 3 + Len(pages) * 2
        emitted == EmitObjects(SortByNum(Objects(pages)), <<HeaderPiece>>,
                               [n \in 0..max_obj_num |-> 0], HeaderPiece.len)
    IN  [parts |-> emitted.parts,
         xref |-> [first |-> 0, size |-> max_obj_num + 1,
                   entries |-> <<[offset |-> 0, gen |-> 65535, kind |-> "f"]>>
                               \o [n \in 1..max_obj_num |->
                                     [offset |-> emitted.offsets[n], gen |-> 0,
                                      kind |-> "n"]]],
         trailer |-> [size |-> max_obj_num + 1, root |-> 1,
                      startxref |-> emitted.cursor]]

\* ------------------------------------- the wrapper on its own
\* Lines of up to three words; a word of 101 or 250 characters is over budget.
WordLens == {1, 40, 60, 100, 101, 250}
WrapInputs ==
    {<<>>} \cup {<<a>> : a \in WordLens}
    \cup {<<a, b>> : a \in WordLens, b \in WordLens}
    \cup {<<a, b, c>> : a \in WordLens, b \in WordLens, c \in WordLens}

WrapOne ==
    /\ fn.op = ""
    /\ \E words \in WrapInputs :
         fn' = [op |-> "wrap", args |-> <<words>>, out |-> <<WrapLine(words, MaxChars)>>]
    /\ UNCHANGED <<pc, runNo, events, runVars, fileVars, race>>

NextWrap ==
    \/ WrapOne
    \/ ForgetFn

SpecWrap == Init /\ [][NextWrap]_vars

\* ------------------------------------- the encoder on its own
\* Lists of up to MaxLines lines; line i of a list is, by its pattern, i
\* letters, i letters in parentheses, i two-byte letters and two backslashes
\* or, in the last pattern, i letters, an empty second line and i closing
\* parentheses on the other even lines. The lines of a list differ from one
\* another.
MaxLines == 99
LinePatterns == {"plain", "parens", "wide", "gaps"}
LineOf(pattern, i) ==
    CASE pattern = "plain" -> <<Rn("a", i)>>
      [] pattern = "parens" -> <<Rn("(", 1), Rn("a", i), Rn(")", 1)>>
      [] pattern = "wide" -> <<Rn("u", i), Rn("\\", 2)>>
      [] pattern = "gaps" -> IF i % 2 = 0 /\ i > 2 THEN <<Rn(")", i)>> ELSE
                             IF i = 2 THEN <<>> ELSE <<Rn("a", i)>>
LinesOf(pattern, n) == [i \in 1..n |-> LineOf(pattern, i)]

EncodeLines ==
    /\ fn.op = ""
    /\ \E n \in 0..MaxLines, pattern \in LinePatterns :
         fn' = [op |-> "build_pdf", args |-> <<LinesOf(pattern, n)>>,
                out |-> <<BuildSimpleTextPdf(LinesOf(pattern, n))>>]
    /\ UNCHANGED <<pc, runNo, events, runVars, fileVars, race>>

NextPdf ==
    \/ EncodeLines
    \/ ForgetFn

SpecPdf == Init /\ [][NextPdf]_vars

\* ----------------------------------------- the gate on its own
\* Final texts of `letters` letters and `len - letters` digits, as they are
\* or with white space that normalization removes or shrinks: around the
\* text, in a run of tabs and spaces inside it, in a run of newlines inside it.
GateLetters == {0, 78, 79, 80, 81, 90, 199, 200, 201}
GateLens == {199, 200, 201, 202}
GatePads == {"none", "outer", "tabs", "newlines"}
Run(c, n) == IF n = 0 THEN <<>> ELSE <<Rn(c, n)>>
GateText(letters, len, pad) ==
    CASE pad = "none" -> Run("a", letters) \o Run("1", len - letters)
      [] pad = "outer" ->
           <<Rn(" ", 3)>> \o Run("a", letters) \o Run("1", len - letters)
           \o <<Rn("\n", 1)>>
      [] pad = "tabs" ->
           <<Rn("1", 1), Rn("\t", 2), Rn(" ", 2)>>
           \o Run("a", letters) \o Run("1", len - letters)
      [] pad = "newlines" ->
           <<Rn("1", 1), Rn("\n", 5)>>
           \o Run("a", letters) \o Run("1", len - letters)
\* _set_resume_outputs on a final text, the rendered PDF in place and the
\* feedback items a non-empty list.
GateOne ==
    /\ fn.op = ""
    /\ \E l \in GateLetters, n \in GateLens, p \in GatePads :
         /\ l <= n
         /\ fn' = [op |-> "gate",
                   args |-> <<GateText(l, n, p)>>,
                   out |-> <<SetResumeOutputs(
                                 InitPackage, GateText(l, n, p), OutputPdfPath,
                                 IV("list", <<GoodItem>>), <<>>, <<>>, FALSE,
                                 [exists |-> TRUE, text |-> <<>>])>>]
    /\ UNCHANGED <<pc, runNo, events, runVars, fileVars, race>>

NextGate ==
    \/ GateOne
    \/ ForgetFn

SpecGate == Init /\ [][NextGate]_vars

\* ----------------------------------------- the overlap ratio on its own
\* Words as they are written (w) and the word they are, whatever the case
\* (id). A text is its words joined by a separator that is no letter or digit.
Word(id, w) == [id |-> id, w |-> w]
WJane == Word("jane", <<Rn("A", 1), Rn("a", 3)>>)
WJaneLower == Word("jane", <<Rn("a", 4)>>)
WBuilt == Word("built", <<Rn("a", 5)>>)
WApis == Word("apis", <<Rn("B", 3), Rn("b", 1)>>)
WAmazing == Word("amazing", <<Rn("a", 7)>>)
WAnd == Word("and", <<Rn("a", 3)>>)
WRockets == Word("rockets", <<Rn("b", 7)>>)

RECURSIVE JoinWords(_, _)
JoinWords(ws, sep) ==
    IF ws = <<>> THEN <<>>
    ELSE IF Len(ws) = 1 THEN Head(ws).w
    ELSE Head(ws).w \o sep \o JoinWords(Tail(ws), sep)

SourceLists ==
    {<<>>, <<WJane, WBuilt, WApis>>, <<WRockets>>, <<WJaneLower, WAnd>>}
GeneratedWords == {WJane, WJaneLower, WBuilt, WAmazing}
GeneratedLists ==
    {<<>>, <<WJane, WBuilt, WAmazing, WApis, WAnd, WRockets>>,
     <<WJane, WJaneLower, WJane>>, <<WAmazing, WBuilt, WAmazing, WBuilt>>}
    \cup {<<a>> : a \in GeneratedWords}
    \cup {<<a, b>> : a \in GeneratedWords, b \in GeneratedWords}
Separators == {<<Rn(" ", 1)>>, <<Rn(",", 1), Rn("\n", 2)>>}

\* The source words in another order, each of them twice.
Rearranged(ws) == Reverse(ws) \o ws

\* _content_overlap_ratio of the two texts, and of the generated text with
\* the source words rearranged.
OverlapOne ==
    /\ fn.op = ""
    /\ \E src \in SourceLists, gen \in GeneratedLists, sep \in Separators :
         fn' = [op |-> "overlap",
                args |-> <<src, gen, sep>>,
                out |-> <<ContentOverlapRatio(JoinWords(src, sep),
                                              JoinWords(gen, sep)),
                          ContentOverlapRatio(JoinWords(Rearranged(src), sep),
                                              JoinWords(gen, sep))>>]
    /\ UNCHANGED <<pc, runNo, events, runVars, fileVars, race>>

NextOverlap ==
    \/ OverlapOne
    \/ ForgetFn

SpecOverlap == Init /\ [][NextOverlap]_vars

\* ----------------------------------------- the website validator on its own
\* Values of a payload field: a string with text, a string of white space,
\* the empty string, a number, no value.
FieldValues ==
    {StrOk, DV("str", <<Seg("text", <<Rn(" ", 2), Rn("\n", 1)>>)>>),
     DV("str", <<>>), DV("num", <<>>), DV("absent", <<>>)}
\* Values of html: the same, and documents that name both files, one of them
\* or none, in lower case or in capitals.
HtmlRefs == {"", "link_styles", "link_styles_upper"}
HtmlScripts == {"", "script_ref", "script_ref_upper"}
HtmlWith(style, script) ==
    DV("str", <<Seg("tag", <<>>)>>
              \o (IF style = "" THEN <<>> ELSE <<Seg(style, <<>>)>>)
              \o <<Seg("text", VisAll)>>
              \o (IF script = "" THEN <<>> ELSE <<Seg(script, <<>>)>>))
HtmlValues ==
    {v \in FieldValues : v /= StrOk}
    \cup {HtmlWith(st, sc) : st \in HtmlRefs, sc \in HtmlScripts}

\* _is_valid_website_payload on a payload, and the handler on a collaborator
\* that returns it.
ValidateOne ==
    /\ fn.op = ""
    /\ \E t \in FieldValues, h \in HtmlValues, c \in FieldValues, j \in FieldValues :
         LET w == WObj(t, h, c, j)
             done == CreateWebsiteWithResumeReview(
                         CREATE_WEBSITE,
                         [InitPackage EXCEPT !.final_resume_text = VisAll,
                                             !.updated_pdf_path = AbsOutputPdf],
                         CrewResult("ok", RDirect(w, WNull), NoPdf),
                         NoSite, NoBuildMeta, 1)
         IN  fn' = [op |-> "validate",
                    args |-> <<w>>,
                    out |-> <<IsValidWebsitePayload(w), done.err, done.site.exists>>]
    /\ UNCHANGED <<pc, runNo, events, runVars, fileVars, race>>

NextValidate ==
    \/ ValidateOne
    \/ ForgetFn

SpecValidate == Init /\ [][NextValidate]_vars

\* ----------------------------------------- the generation stage on its own
\* Payloads with every choice of keys, found in the raw text directly, in a
\* fenced block or between braces.
StagePayloads ==
    {Obj(req \cup opt, TV("str", text), PV("str", OutputPdfPath),
         IV("list", <<GoodItem>>), OneUpdate, NoList, NoMeta) :
       req \in SUBSET RequiredKeys, opt \in SUBSET UpdateKeys,
       text \in {GoodText, ShortText}}
StageRaws == {RDirect(o, EmptyObj) : o \in StagePayloads}
             \cup {RFenced(o, EmptyObj) : o \in StagePayloads}
             \cup {RNoise(o, EmptyObj) : o \in StagePayloads}

\* _stage_review_update_render_pdf after a miss: the package as the
\* fingerprint stage left it, no artifact and no record yet, the collaborator
\* returning raw with the PDF rendered. The outcome, and the keys the message
\* of a schema violation lists.
StageOne ==
    /\ fn.op = ""
    /\ \E raw \in StageRaws :
         LET fp == StageExtractResumeFingerprint(
                       InitPackage, <<Rn("b", 3)>>,
                       [exists |-> TRUE, bytes |-> "pdfA"]).pkg
             pdf == [exists |-> TRUE, text |-> RenderedText(raw)]
         IN  fn' = [op |-> "stage",
                    args |-> <<raw, fp>>,
                    out |-> <<StageReviewUpdateRenderPdf(
                                  fp, CrewResult("ok", raw, pdf),
                                  NoArtifacts, NoFile, 1),
                              MissingKeysSorted(ExtractJsonObject(raw).obj)>>]
    /\ UNCHANGED <<pc, runNo, events, runVars, fileVars, race>>

NextStage ==
    \/ StageOne
    \/ ForgetFn

SpecStage == Init /\ [][NextStage]_vars

\* ----------------------------------------- two runs on one record file
\* Two runs with the same fingerprint, each its own process, nothing between
\* them but the file system. The record file is a sequence of cells, a cell
\* the i-th unit of the dump of run w (w = 0: a byte nobody wrote). A dump has
\* one unit and one more for every 128 characters of its text. open(path, "w")
\* truncates and starts at position 0; the buffered writer hands the units to
\* the file in one or several writes, each at the position of its own handle.
Cell(w, i) == [w |-> w, i |-> i]
DumpUnits(rec) == 1 + TextLen(rec.o.final_resume_text.s) \div 128
Complete(w, rec) == [i \in 1..DumpUnits(rec) |-> Cell(w, i)]
RaceTexts == {GoodText, <<Rn("a", 300)>>}
RaceFp ==
    StageExtractResumeFingerprint(InitPackage, <<Rn("b", 3)>>,
                                  [exists |-> TRUE, bytes |-> "pdfA"]).pkg
RacePdf == [exists |-> TRUE, text |-> GoodText]
Unparseable == [kind |-> "unparseable", o |-> EmptyObj]

\* What a reader may find in the file: nothing, the dump of one run whole, or
\* something json.loads rejects (an empty file, a dump cut short, a dump
\* followed by the rest of a longer one). Units of two dumps of the same
\* length, mixed, may be rejected or may read as either record.
RaceReadings(r) ==
    IF ~r.exists THEN {NoFile}
    ELSE LET whole == {p \in RaceProcs : /\ r.procs[p].rec.kind = "object"
                                         /\ r.content = Complete(p, r.procs[p].rec)}
             blend == {p \in RaceProcs :
                         /\ r.procs[p].rec.kind = "object"
                         /\ Len(r.content) = DumpUnits(r.procs[p].rec)
                         /\ \A i \in 1..Len(r.content) :
                              r.content[i].i = i /\ r.content[i].w \in RaceProcs}
         IN  IF whole /= {} THEN {r.procs[p].rec : p \in whole}
             ELSE IF Cardinality(blend) = 2
             THEN {Unparseable} \cup {r.procs[p].rec : p \in blend}
             ELSE {Unparseable}

RaceStart ==
    /\ ~race.on
    /\ fn.op = ""
    /\ race' = [NoRace EXCEPT !.on = TRUE,
                              !.procs = [p \in RaceProcs |-> [@[p] EXCEPT !.pc = "load"]]]
    /\ UNCHANGED <<pc, runNo, events, runVars, fileVars, fn>>

\* _load_resume_cache
RaceLoad(p) ==
    /\ race.on
    /\ race.procs[p].pc = "load"
    /\ \E file \in RaceReadings(race) :
         LET out == LoadResumeCache(RaceFp, file, RacePdf, NoArtifacts, p)
         IN  race' = [race EXCEPT
                        !.procs[p].pc = IF out.res = "miss" THEN "generate" ELSE "done",
                        !.procs[p].res = IF out.res = "miss" THEN ""
                                         ELSE IF out.res = "hit" THEN "hit"
                                         ELSE "abort"]
    /\ UNCHANGED <<pc, runNo, events, runVars, fileVars, fn>>

\* _stage_review_update_render_pdf up to the call of _save_resume_cache: rec is
\* the record it is about to dump.
RaceGenerate(p) ==
    /\ race.on
    /\ race.procs[p].pc = "generate"
    /\ \E text \in RaceTexts :
         LET o == Payload(RequiredKeys, TV("str", text), OutputPdfPath,
                          IV("list", <<GoodItem>>), NoList)
             gen == StageReviewUpdateRenderPdf(
                        RaceFp, CrewResult("ok", RDirect(o, EmptyObj), RacePdf),
                        NoArtifacts, NoFile, p)
         IN  /\ gen.res = "ok"
             /\ race' = [race EXCEPT !.procs[p].pc = "open",
                                     !.procs[p].rec = gen.file]
    /\ UNCHANGED <<pc, runNo, events, runVars, fileVars, fn>>

\* open(cache_path, "w")
RaceOpen(p) ==
    /\ race.on
    /\ race.procs[p].pc = "open"
    /\ race' = [race EXCEPT !.exists = TRUE, !.content = <<>>,
                            !.procs[p].pc = "write", !.procs[p].pos = 0]
    /\ UNCHANGED <<pc, runNo, events, runVars, fileVars, fn>>

\* One write of the buffered writer: the next k units, at the handle's position.
RaceWrite(p) ==
    /\ race.on
    /\ race.procs[p].pc = "write"
    /\ \E k \in 1..(DumpUnits(race.procs[p].rec) - race.procs[p].pos) :
         LET from == race.procs[p].pos
             size == Max(Len(race.content), from + k)
         IN  race' = [race EXCEPT
                        !.content = [i \in 1..size |->
                                       IF i > from /\ i <= from + k THEN Cell(p, i)
                                       ELSE IF i <= Len(race.content) THEN race.content[i]
                                       ELSE Cell(0, i)],
                        !.last = p,
                        !.procs[p].pos = from + k]
    /\ UNCHANGED <<pc, runNo, events, runVars, fileVars, fn>>

\* The end of the with block: everything is written, the run goes on to its end.
RaceClose(p) ==
    /\ race.on
    /\ race.procs[p].pc = "write"
    /\ race.procs[p].pos = DumpUnits(race.procs[p].rec)
    /\ race' = [race EXCEPT !.procs[p].pc = "done", !.procs[p].res = "saved"]
    /\ UNCHANGED <<pc, runNo, events, runVars, fileVars, fn>>

RaceEnd ==
    /\ race.on
    /\ \A p \in RaceProcs : race.procs[p].pc = "done"
    /\ race' = NoRace
    /\ UNCHANGED <<pc, runNo, events, runVars, fileVars, fn>>

NextRace ==
    \/ RaceStart
    \/ \E p \in RaceProcs : RaceLoad(p)
    \/ \E p \in RaceProcs : RaceGenerate(p)
    \/ \E p \in RaceProcs : RaceOpen(p)
    \/ \E p \in RaceProcs : RaceWrite(p)
    \/ \E p \in RaceProcs : RaceClose(p)
    \/ RaceEnd

SpecRace == Init /\ [][NextRace]_vars

\* ----------------------------------------- a hit after another request's run
HitRequests == {<<>>, <<Rn("b", 3)>>, <<Rn("a", 3), Rn(" ", 1), Rn("b", 3)>>}
HitTexts == {GoodText, PaddedText, SpacedText, <<Rn("a", 300)>>}
HitSource == [exists |-> TRUE, bytes |-> "pdfA"]
HitKeys == {StageExtractResumeFingerprint(InitPackage, r, HitSource).pkg.cache_key :
              r \in HitRequests}

\* run_resume_pipeline for a request, with the record files and the PDF at the
\* output path as it finds them; the collaborator, when the run comes to it,
\* returns text and has rendered it at the output path.
PipelineRun(request, files, pdf, text, now) ==
    LET fp == StageExtractResumeFingerprint(InitPackage, request, HitSource).pkg
        ld == LoadResumeCache(fp, files[fp.cache_key], pdf, NoArtifacts, now)
        raw == RDirect(Payload(RequiredKeys, TV("str", text), OutputPdfPath,
                               IV("list", <<GoodItem>>), NoList), EmptyObj)
        rendered == [exists |-> TRUE, text |-> RenderedText(raw)]
        gen == StageReviewUpdateRenderPdf(fp, CrewResult("ok", raw, rendered),
                                          ld.arts, files[fp.cache_key], now)
    IN  IF ld.res = "miss"
        THEN [res |-> gen.res, pkg |-> gen.pkg, pdf |-> rendered,
              files |-> [files EXCEPT ![fp.cache_key] = gen.file]]
        ELSE [res |-> ld.res, pkg |-> ld.pkg, pdf |-> pdf, files |-> files]

\* Three runs one after the other: request r1, request r2, request r1 again.
\* The result, the package and the PDF at the output path after the third.
HitAfterOtherRun ==
    /\ fn.op = ""
    /\ \E r1 \in HitRequests, r2 \in HitRequests, t1 \in HitTexts, t2 \in HitTexts :
         LET run1 == PipelineRun(r1, [k \in HitKeys |-> NoFile], NoPdf, t1, 1)
             run2 == PipelineRun(r2, run1.files, run1.pdf, t2, 2)
             run3 == PipelineRun(r1, run2.files, run2.pdf, t2, 3)
         IN  fn' = [op |-> "hit_after",
                    args |-> <<r1, r2, t1, t2>>,
                    out |-> <<run3.res, run3.pkg, run3.pdf, run2.res>>]
    /\ UNCHANGED <<pc, runNo, events, runVars, fileVars, race>>

NextHit ==
    \/ HitAfterOtherRun
    \/ ForgetFn

SpecHit == Init /\ [][NextHit]_vars

\* ------------------------------------------------------------ claims
Count(seq, e) == Cardinality({i \in 1..Len(seq) : seq[i] = e})
Has(seq, e) == \E i \in 1..Len(seq) : seq[i] = e
Before(seq, a, b) ==
    \A i \in 1..Len(seq) : seq[i] = b => \E j \in 1..(i - 1) : seq[j] = a

\* The reasonableness gate as the specification words it: at least 200
\* characters, more than 40% alphabetic.
PassesGate(t) == TextLen(t) >= 200 /\ 5 * CountAlpha(t) > 2 * TextLen(t)

WrittenThisRun(stamp) == runNo > 0 /\ stamp = runNo

\* C1: a record file this program wrote holds a final text that passes the
\* gate and a non-empty feedback list, and a run saves the record only after
\* _set_resume_outputs accepted a payload that has the required keys, a text
\* passing the gate, an existing updated PDF and a non-empty feedback list.
C1_RecordWrittenOnlyAfterValidation ==
    /\ \A k \in programWrote :
         /\ cacheFiles[k].kind = "object"
         /\ RequiredKeys \subseteq cacheFiles[k].o.keys
         /\ cacheFiles[k].o.final_resume_text.t = "str"
         /\ PassesGate(cacheFiles[k].o.final_resume_text.s)
         /\ cacheFiles[k].o.feedback_items.t = "list"
         /\ cacheFiles[k].o.feedback_items.items /= <<>>
    /\ Has(log, "cache_save") =>
         /\ Before(log, "set_outputs", "cache_save")
         /\ package.cache_key \in programWrote
         /\ extracted.stage = "resume" =>
              /\ extracted.err = "none"
              /\ RequiredKeys \subseteq extracted.obj.keys
              /\ PassesGate(NormalizeText(StrText(extracted.obj.final_resume_text)))
              /\ PathExists(Resolve(StrPath(extracted.obj.updated_pdf_path)), updatedPdf)
              /\ extracted.obj.feedback_items.t = "list"
              /\ extracted.obj.feedback_items.items /= <<>>

C1_Witness ==
    /\ pc = "persisted"
    /\ Has(log, "cache_save")
    /\ package.cache_key \in programWrote

\* C2 as written: a run that reached PersistedResume has saved the cache record
\* and written the resume artifacts, on the hit path as on the miss path.
C2_SaveAndArtifactsOnEveryPath ==
    pc = "persisted" => Has(log, "cache_save") /\ Has(log, "write_artifacts")

\* C2 amended: a run that reached PersistedResume has written the resume
\* artifacts in this run, on both paths; it has saved the cache record exactly
\* when it came by the miss path, and on the hit path the record file is as the
\* load found it.
C2_ArtifactsAlwaysSaveOnMiss ==
    pc = "persisted" =>
        /\ Has(log, "write_artifacts")
        /\ artifacts.review.exists /\ artifacts.feedback.exists
        /\ WrittenThisRun(artifacts.review.generated_at_utc)
        /\ artifacts.review.cache_key = package.cache_key
        /\ artifacts.review.feedback_items = package.feedback_items
        /\ artifacts.feedback.feedback_items = package.feedback_items
        /\ package.cache_hit <=> ~Has(log, "cache_save")
        /\ package.cache_hit => cacheFiles[package.cache_key] = loaded.file
        /\ ~package.cache_hit =>
              /\ cacheFiles[package.cache_key].kind = "object"
              /\ WrittenThisRun(cacheFiles[package.cache_key].o.meta.generated_at_utc)

C2_Witness ==
    /\ pc = "persisted"
    /\ package.cache_hit
    /\ ~Has(log, "cache_save")
    /\ Has(log, "write_artifacts")

\* What C3 calls corruption: the record file is there and is not a record the
\* load can accept.
CorruptRecord(l) ==
    /\ l.file.kind /= "missing"
    /\ \/ l.file.kind /= "object"
       \/ ~PassesGate(NormalizeText(StrText(l.file.o.final_resume_text)))
       \/ ~l.pdfThere
       \/ l.file.o.feedback_items.t /= "list"
       \/ l.file.o.feedback_items.items = <<>>

\* C3: whatever the record file holds, a record the load cannot accept is a
\* miss: the load does not raise and the run goes on to generation.
C3_CorruptionIsAMiss ==
    (loaded.done /\ CorruptRecord(loaded)) =>
        /\ loaded.res = "miss"
        /\ ~(pc = "failed" /\ failedAt = "load_cache")

\* The cases of C4: no record file, text json.loads rejects, or an object that
\* lacks one of final_resume_text, updated_pdf_path, feedback_items.
AbsentCase(file) ==
    \/ file.kind \in {"missing", "unparseable"}
    \/ file.kind = "object" /\ ~(RequiredKeys \subseteq file.o.keys)

C5_SavedRecordIsHit ==
    (loaded.done /\ loaded.intact /\ loaded.pdfThere) =>
        /\ loaded.res = "hit"
        /\ package.cache_hit
        /\ pc /= "miss"
        /\ failedAt /= "load_cache"
        /\ ~Has(log, "resume_crew")

C5_Witness ==
    /\ loaded.done /\ loaded.intact /\ loaded.pdfThere
    /\ pc = "done"
    /\ runNo = 2

\* The overlap ratio of the website payload last extracted, against the final
\* resume text of the package.
SiteOverlap ==
    ContentOverlapRatio(package.final_resume_text,
                        ExtractVisibleTextFromHtml(extracted.obj.html.segs))

WebsitePayloadOk ==
    /\ extracted.stage = "website"
    /\ extracted.err = "none"
    /\ IsValidWebsitePayload(extracted.obj).valid

\* Within a run the stamp of a file equals the run's number exactly when the
\* run wrote the file.
SiteWrittenThisRun ==
    /\ pc /= "idle"
    /\ \/ Has(log, "site_write")
       \/ Has(log, "docs_meta")
       \/ site.exists /\ WrittenThisRun(site.meta.generated_at_utc)
       \/ buildMeta.website.present /\ WrittenThisRun(buildMeta.generated_at_utc)

\* C6: the site files and the website build metadata are written in a run only
\* when the website payload passed validation and at least 70% of the tokens
\* of its visible text are tokens of the final resume text; below 70% the run
\* has failed with ContentFidelityViolation, has written no site file, and the
\* website crew is called once and never again.
C6_SiteWrittenOnlyWhenFaithful ==
    /\ Count(log, "website_crew") <= 1
    /\ SiteWrittenThisRun =>
         /\ WebsitePayloadOk
         /\ 10 * SiteOverlap.num >= 7 * SiteOverlap.den
         /\ pc = "done"
    /\ (WebsitePayloadOk /\ 10 * SiteOverlap.num < 7 * SiteOverlap.den) =>
         /\ pc = "failed"
         /\ err = "ContentFidelityViolation"
         /\ ~SiteWrittenThisRun
         /\ Count(log, "website_crew") = 1
         /\ ~ENABLED DoCreateWebsite

C6_Witness ==
    /\ WebsitePayloadOk
    /\ 10 * SiteOverlap.num < 7 * SiteOverlap.den
    /\ SiteOverlap.num > 0
    /\ err = "ContentFidelityViolation"

\* The first of the three attempts, in order, that yields an object.
FirstObject(raw) ==
    IF raw.direct.k = "obj" THEN raw.direct
    ELSE IF raw.fence.k = "obj" THEN raw.fence
    ELSE IF raw.brace.k = "obj" THEN raw.brace
    ELSE P("none", raw.direct.o)

\* C7: extract returns the object of the first attempt, in the order direct,
\* fenced block, brace span, that yields an object; an attempt that does not
\* parse counts as failed and the next one is tried.
C7_FirstObjectWins ==
    (extracted.stage /= "" /\ FirstObject(extracted.raw).k = "obj") =>
        /\ extracted.err = "none"
        /\ extracted.obj = FirstObject(extracted.raw).o

\* C8: when no attempt yields an object, extract fails with MalformedOutput and
\* with no other error.
C8_OnlyMalformedOutput ==
    (extracted.stage /= "" /\ FirstObject(extracted.raw).k /= "obj") =>
        extracted.err = "MalformedOutput"

\* C9: a run whose source path does not exist ends in the fingerprint stage
\* with SourceNotFound, and has then read and written no cache file, written
\* no artifact, changed no package field and called no crew; no run gets past
\* the fingerprint stage without the source.
C9_SourceNotFoundBeforeCache ==
    /\ (pc = "failed" /\ failedAt = "fingerprint") =>
         /\ err = "SourceNotFound"
         /\ ~source.exists
         /\ package = InitPackage
         /\ log = <<>>
         /\ ~loaded.done
         /\ extracted = NoExtract
         /\ ~WrittenThisRun(artifacts.review.generated_at_utc)
         /\ ~WrittenThisRun(buildMeta.generated_at_utc)
         /\ ~WrittenThisRun(site.meta.generated_at_utc)
         /\ \A k \in AllKeys :
              cacheFiles[k].kind = "object"
              => ~WrittenThisRun(cacheFiles[k].o.meta.generated_at_utc)
    /\ (pc \notin {"idle", "start", "route", "pipeline"} /\ ~source.exists) =>
         /\ pc = "failed"
         /\ failedAt \in {"start_conversation", "fingerprint"}

C9_Witness ==
    /\ pc = "failed"
    /\ err = "SourceNotFound"
    /\ runNo = 2
    /\ \E k \in AllKeys : cacheFiles[k].kind = "object"

\* C10: a payload is accepted, from the crew or from the cache, only if every
\* element of feedback_items is an object with the keys category, severity,
\* issue and recommendation.
C10_FeedbackItemsHaveAllKeys ==
    Has(log, "set_outputs") =>
        \A i \in 1..Len(package.feedback_items) :
            /\ package.feedback_items[i].t = "obj"
            /\ FeedbackKeys \subseteq package.feedback_items[i].keys

\* The stage after the pipeline that a run has executed, from its steps.
RanUpdateOnly == Has(log, "build_meta") /\ ~Has(log, "website_crew")
RanWebsite == Has(log, "website_crew")

\* The order of the stages of a run.
StageRank(p) ==
    CASE p = "start" -> 1
      [] p = "route" -> 2
      [] p = "pipeline" -> 3
      [] p = "fingerprinted" -> 4
      [] p = "miss" -> 5
      [] p = "persisted" -> 6
      [] p \in {UPDATE_RESUME, CREATE_WEBSITE} -> 7
      [] p \in {"done", "failed"} -> 8
      [] OTHER -> 0

\* C11: once start_conversation has set the user path no later step of the run
\* changes it; the stage after the pipeline is update_resume_only exactly when
\* the path is update_resume and create_website_with_resume_review exactly
\* when it is create_website, never both; and every step of a run moves to a
\* later stage, so no stage is entered twice.
C11_PathFixedAndDecidesBranch ==
    /\ [](/\ pc = UPDATE_RESUME => user_path = UPDATE_RESUME
          /\ pc = CREATE_WEBSITE => user_path = CREATE_WEBSITE
          /\ RanUpdateOnly => user_path = UPDATE_RESUME
          /\ RanWebsite => user_path = CREATE_WEBSITE
          /\ ~(RanUpdateOnly /\ RanWebsite)
          /\ (pc = "done" /\ user_path = UPDATE_RESUME) => RanUpdateOnly
          /\ (pc = "done" /\ user_path = CREATE_WEBSITE) => RanWebsite
          /\ \A e \in {"fingerprint", "cache_read", "resume_crew", "set_outputs",
                       "write_artifacts", "cache_save", "website_crew",
                       "site_write", "build_meta", "docs_meta"} :
               Count(log, e) <= 1)
    /\ [][/\ (pc \notin {"idle", "start"} /\ pc' /= "idle") => user_path' = user_path
          /\ (pc /= "idle" /\ pc' /= "idle") => StageRank(pc') > StageRank(pc)]_vars

C11_Witness ==
    /\ pc = "done"
    /\ user_path = CREATE_WEBSITE
    /\ RanWebsite
    /\ Has(log, "cache_read")

\* C12 as stated: two inputs that differ in the source bytes or in the request
\* text have different keys.
C12_KeyChangesWithAnyInput ==
    fn.op = "fingerprint" =>
        (fn.args[1] /= fn.args[2] => fn.out[1] /= fn.out[2])

\* C12 amended: the key is a function of the input; it carries the pipeline
\* version, and two inputs have the same key exactly when they have the same
\* source bytes and the same request text after normalisation.
C12_KeyDeterminedByNormalizedInputs ==
    fn.op = "fingerprint" =>
        /\ fn.args[1] = fn.args[2] => fn.out[1] = fn.out[2]
        /\ fn.out[1].v = FLOW_VERSION /\ fn.out[2].v = FLOW_VERSION
        /\ fn.out[1] = fn.out[2] <=>
              /\ fn.args[1].bytes = fn.args[2].bytes
              /\ NormalizeText(fn.args[1].request) = NormalizeText(fn.args[2].request)

C12_Witness ==
    /\ fn.op = "fingerprint"
    /\ fn.args[1].request /= fn.args[2].request
    /\ fn.out[1] = fn.out[2]

\* C13: a record saved from an accepted package and loaded by its key, with the
\* updated PDF still there, is a hit that leaves final_resume_text,
\* feedback_items, applied_user_updates and skipped_user_updates as they were
\* saved; normalising the text again and str() of the list elements change
\* nothing.
C13_SaveLoadRoundTrip ==
    fn.op = "save_load" =>
        LET saved == fn.args[1]
            ld == fn.out[1]
        IN  /\ ld.res = "hit"
            /\ ld.pkg.final_resume_text = saved.final_resume_text
            /\ ld.pkg.feedback_items = saved.feedback_items
            /\ ld.pkg.applied_user_updates = saved.applied_user_updates
            /\ ld.pkg.skipped_user_updates = saved.skipped_user_updates
            /\ NormalizeText(saved.final_resume_text) = saved.final_resume_text

C13_Witness ==
    /\ fn.op = "save_load"
    /\ fn.args[1].final_resume_text = NormalizeText(SpacedText)
    /\ NormalizeText(SpacedText) /= SpacedText
    /\ Len(fn.args[1].applied_user_updates) = 2
    /\ Len(fn.args[1].skipped_user_updates) = 1
    /\ Len(fn.args[1].feedback_items) = 3
    /\ fn.out[1].res = "hit"

\* C14: the run that generated and the run that loaded the record it saved end
\* with the same package but for cache_hit, have each written review.json and
\* feedback.txt with the same content but for the time stamp, and write build
\* metadata that differ in cache.hit and the time stamp alone.
C14_HitLikeFreshButForFlag ==
    fn.op = "save_load" =>
        LET fresh == fn.args[1]
            freshArts == fn.args[3]
            freshMeta == fn.args[4]
            ld == fn.out[1]
            hitMeta == fn.out[2]
        IN  /\ ld.res = "hit"
            /\ ~fresh.cache_hit
            /\ ld.pkg = [fresh EXCEPT !.cache_hit = TRUE]
            /\ freshArts.review.exists /\ freshArts.review.generated_at_utc = 1
            /\ ld.arts.review.exists /\ ld.arts.review.generated_at_utc = 2
            /\ ld.arts.review = [freshArts.review EXCEPT !.generated_at_utc = 2]
            /\ ld.arts.feedback.exists
            /\ ld.arts.feedback = freshArts.feedback
            /\ ~freshMeta.cache.hit
            /\ hitMeta = [freshMeta EXCEPT !.generated_at_utc = 2, !.cache.hit = TRUE]

C14_Witness ==
    /\ fn.op = "save_load"
    /\ fn.out[1].res = "hit"
    /\ fn.out[2].cache.hit
    /\ fn.out[2].flow_path = CREATE_WEBSITE
    /\ Len(fn.out[1].arts.review.skipped_user_updates) = 1
    /\ Len(fn.out[1].arts.feedback.feedback_items) = 3

\* Reading the encoded document: the byte position of a part, the object
\* numbers emitted, and the body of an object.
PosOf(parts, i) == SumSeq([j \in 1..(i - 1) |-> parts[j].len])
HeadsOf(parts, n) ==
    {i \in 1..Len(parts) : parts[i].k = "objhead" /\ parts[i].num = n}
EmittedNums(parts) ==
    {parts[i].num : i \in {j \in 1..Len(parts) : parts[j].k = "objhead"}}
HighestObj(parts) ==
    CHOOSE m \in EmittedNums(parts) : \A k \in EmittedNums(parts) : k <= m
BodyOf(parts, n) ==
    parts[CHOOSE i \in 1..Len(parts) : parts[i].k = "body" /\ parts[i].num = n].body

\* C15: the cross-reference section starts at object 0 and has highest + 1
\* entries, the first of them the free entry; the entry of each object number
\* from 1 to the highest holds the byte position of that object's "n 0 obj";
\* startxref is the byte position of the "xref" keyword, which follows the
\* last object.
C15_XrefOffsetsExact ==
    fn.op = "build_pdf" =>
        LET d == fn.out[1]
            highest == HighestObj(d.parts)
        IN  /\ d.xref.first = 0
            /\ d.xref.size = highest + 1
            /\ Len(d.xref.entries) = highest + 1
            /\ d.xref.entries[1] = [offset |-> 0, gen |-> 65535, kind |-> "f"]
            /\ \A n \in 1..highest :
                 /\ Cardinality(HeadsOf(d.parts, n)) = 1
                 /\ d.xref.entries[n + 1].kind = "n"
                 /\ \A i \in HeadsOf(d.parts, n) :
                      d.xref.entries[n + 1].offset = PosOf(d.parts, i)
            /\ d.trailer.startxref = PosOf(d.parts, Len(d.parts) + 1)

C15_Witness ==
    /\ fn.op = "build_pdf"
    /\ Len(fn.args[1]) = 50
    /\ fn.args[1][1] = <<Rn("u", 1), Rn("\\", 2)>>
    /\ HighestObj(fn.out[1].parts) = 7
    /\ fn.out[1].xref.entries[8].offset > fn.out[1].xref.entries[6].offset + 1000

\* The object numbers the document refers to: those of every body and the
\* root of the trailer.
BodyIndexes(parts) == {i \in 1..Len(parts) : parts[i].k = "body"}
ReferencedNums(d) ==
    UNION {{d.parts[i].body.refs[j] : j \in 1..Len(d.parts[i].body.refs)}
           : i \in BodyIndexes(d.parts)}
    \cup {d.trailer.root}
PageCount(d) ==
    Cardinality({i \in BodyIndexes(d.parts) : d.parts[i].body.k = "page"})

\* C16: every object number the document refers to (the catalog's 2, the
\* page collection's kids, each page's parent 2, font 3 and content stream,
\* the trailer's root 1) is emitted exactly once and has a non-zero offset in
\* the table; with P pages the objects are exactly 1..3+2P, page i (from 0)
\* is object 4+2i with content stream 5+2i, and the page collection lists
\* the P page objects in page order with Count P.
C16_ReferencesResolveAndNumbering ==
    fn.op = "build_pdf" =>
        LET d == fn.out[1]
            n_pages == PageCount(d)
        IN  /\ \A n \in ReferencedNums(d) :
                 /\ Cardinality(HeadsOf(d.parts, n)) = 1
                 /\ n + 1 \in 1..Len(d.xref.entries)
                 /\ d.xref.entries[n + 1].kind = "n"
                 /\ d.xref.entries[n + 1].offset > 0
            /\ EmittedNums(d.parts) = 1..(3 + 2 * n_pages)
            /\ \A n \in 1..(3 + 2 * n_pages) : Cardinality(HeadsOf(d.parts, n)) = 1
            /\ d.trailer.root = 1
            /\ BodyOf(d.parts, 1).k = "catalog" /\ BodyOf(d.parts, 1).refs = <<2>>
            /\ BodyOf(d.parts, 2).k = "pages"
            /\ BodyOf(d.parts, 2).refs = [i \in 1..n_pages |-> 4 + 2 * (i - 1)]
            /\ BodyOf(d.parts, 2).count = n_pages
            /\ BodyOf(d.parts, 3).k = "font"
            /\ \A i \in 0..(n_pages - 1) :
                 /\ BodyOf(d.parts, 4 + 2 * i).k = "page"
                 /\ BodyOf(d.parts, 4 + 2 * i).refs = <<2, 3, 5 + 2 * i>>
                 /\ BodyOf(d.parts, 5 + 2 * i).k = "content"

C16_Witness ==
    /\ fn.op = "build_pdf"
    /\ Len(fn.args[1]) = 99
    /\ PageCount(fn.out[1]) = 3
    /\ ReferencedNums(fn.out[1]) = {1, 2, 3, 4, 5, 6, 7, 8, 9}
    /\ BodyOf(fn.out[1].parts, 8).refs = <<2, 3, 9>>

\* The pages of the document in page order, each the sequence of the texts
\* its content stream shows: the kids of the page collection, the content
\* stream each names.
PagesShown(d) ==
    LET kids == BodyOf(d.parts, 2).refs
    IN  [i \in 1..Len(kids) |->
           BodyOf(d.parts, BodyOf(d.parts, kids[i]).refs[3]).shown]
RECURSIVE Flatten(_)
Flatten(ss) == IF ss = <<>> THEN <<>> ELSE Head(ss) \o Flatten(Tail(ss))

\* C17: n lines give max(1, ceil(n / 49)) pages; the empty list gives one
\* page that shows no text; no page holds more than 49 lines and every page
\* but the last holds exactly 49; the pages read in order show the input
\* lines (escaped) in their order, none lost, none twice.
C17_PagesPartitionTheLines ==
    fn.op = "build_pdf" =>
        LET lines == fn.args[1]
            n == Len(lines)
            shown == PagesShown(fn.out[1])
        IN  /\ Len(shown) = (IF n = 0 THEN 1 ELSE (n + 48) \div 49)
            /\ PageCount(fn.out[1]) = Len(shown)
            /\ n = 0 => shown = << <<>> >>
            /\ \A i \in 1..Len(shown) :
                 /\ Len(shown[i]) <= 49
                 /\ i < Len(shown) => Len(shown[i]) = 49
            /\ Flatten(shown) = [i \in 1..n |-> EscapePdfText(lines[i])]

C17_Witness ==
    /\ fn.op = "build_pdf"
    /\ Len(fn.args[1]) = 50
    /\ Len(PagesShown(fn.out[1])) = 2
    /\ Len(PagesShown(fn.out[1])[2]) = 1
    /\ PagesShown(fn.out[1])[2][1] = EscapePdfText(fn.args[1][50])
    /\ fn.args[1][50] /= fn.args[1][49]

\* C18: every segment the wrapper returns for a line has at most 100
\* characters, a word longer than that being split wherever it stands in the
\* line.
C18_EverySegmentWithinBudget ==
    fn.op = "wrap" =>
        \A i \in 1..Len(fn.out[1]) : SegLen(fn.out[1][i]) <= 100

\* C19: the gate accepts a final text exactly when, after normalization, it
\* has at least 200 characters and its letters are strictly more than 40% of
\* them (5 * letters > 2 * length); a text it rejects ends in
\* LowQualityOutput and leaves the package as it was. 199 letters fail; of
\* 200 characters, 90 letters pass, 78 fail, 80 fail.
C19_GateThreshold ==
    fn.op = "gate" =>
        LET t == NormalizeText(fn.args[1])
            accepted == TextLen(t) >= 200 /\ 5 * CountAlpha(t) > 2 * TextLen(t)
            r == fn.out[1]
        IN  /\ (r.err = "LowQualityOutput") <=> ~accepted
            /\ accepted => r.err = "none" /\ r.pkg.final_resume_text = t
            /\ ~accepted => r.pkg = InitPackage
            /\ fn.args[1] = <<Rn("a", 199)>> => r.err = "LowQualityOutput"
            /\ fn.args[1] = <<Rn("a", 90), Rn("1", 110)>> => r.err = "none"
            /\ fn.args[1] = <<Rn("a", 78), Rn("1", 122)>> => r.err = "LowQualityOutput"
            /\ fn.args[1] = <<Rn("a", 80), Rn("1", 120)>> => r.err = "LowQualityOutput"
            /\ fn.args[1] = <<Rn("a", 81), Rn("1", 119)>> => r.err = "none"

C19_Witness ==
    /\ fn.op = "gate"
    /\ fn.args[1] = <<Rn("a", 80), Rn("1", 120)>>
    /\ fn.out[1].err = "LowQualityOutput"

\* The generated words, counted with repetition, that are among the source
\* words.
Matched(src, gen) ==
    {i \in 1..Len(gen) : \E j \in 1..Len(src) : src[j].id = gen[i].id}
ExampleSource == <<WJane, WBuilt, WApis>>
ExampleGenerated == <<WJane, WBuilt, WAmazing, WApis, WAnd, WRockets>>

\* C20 as stated: the ratio is matched generated tokens over generated
\* tokens, lies in [0, 1], is 0 for no generated token, does not change with
\* the order or multiplicity of the source tokens, and for 'Jane built APIs'
\* against 'Jane built amazing APIs and rockets' it is 3 of 5.
C20_RatioWithExampleThreeOfFive ==
    fn.op = "overlap" =>
        LET src == fn.args[1]
            gen == fn.args[2]
            r == fn.out[1]
        IN  /\ Len(gen) > 0 =>
                 r.num * Len(gen) = Cardinality(Matched(src, gen)) * r.den
            /\ r.den > 0 /\ 0 <= r.num /\ r.num <= r.den
            /\ Len(gen) = 0 => r.num = 0
            /\ fn.out[2].num * r.den = r.num * fn.out[2].den
            /\ (src = ExampleSource /\ gen = ExampleGenerated) =>
                 5 * r.num = 3 * r.den

\* C20, amended: the same, the example being 3 of 6 generated tokens (0.5).
C20_RatioWithExampleThreeOfSix ==
    fn.op = "overlap" =>
        LET src == fn.args[1]
            gen == fn.args[2]
            r == fn.out[1]
        IN  /\ Len(gen) > 0 =>
                 r.num * Len(gen) = Cardinality(Matched(src, gen)) * r.den
            /\ r.den > 0 /\ 0 <= r.num /\ r.num <= r.den
            /\ Len(gen) = 0 => r.num = 0
            /\ fn.out[2].num * r.den = r.num * fn.out[2].den
            /\ (src = ExampleSource /\ gen = ExampleGenerated) =>
                 r.num = 3 /\ r.den = 6

C20_Witness ==
    /\ fn.op = "overlap"
    /\ fn.args[1] = ExampleSource
    /\ fn.args[2] = ExampleGenerated
    /\ fn.out[1] = [num |-> 3, den |-> 6]
    /\ fn.out[2] = fn.out[1]

\* A field is a non-blank string; the document names a file, in any case.
NonBlankString(v) ==
    /\ v.t = "str"
    /\ \E i \in 1..Len(v.segs) :
         v.segs[i].k /= "text" \/ Strip(v.segs[i].body) /= <<>>
Names(v, kinds) == \E i \in 1..Len(v.segs) : v.segs[i].k \in kinds
\* The constraints in the order the validator looks at them, each with
\* whether the payload w meets it.
Constraints(w) ==
    << [name |-> "title", met |-> NonBlankString(w.title)],
       [name |-> "html", met |-> NonBlankString(w.html)],
       [name |-> "css", met |-> NonBlankString(w.css)],
       [name |-> "js", met |-> NonBlankString(w.js)],
       [name |-> "styles.css",
        met |-> Names(w.html, {"link_styles", "link_styles_upper"})],
       [name |-> "script.js",
        met |-> Names(w.html, {"script_ref", "script_ref_upper"})] >>

\* C21: the validator accepts a payload exactly when title, html, css and js
\* are non-blank strings and the html names styles.css and script.js in any
\* case; when it rejects, the reason names the first constraint that fails in
\* the order title, html, css, js, styles.css, script.js, and the handler
\* raises without writing the site.
C21_ValidatorNamesFirstFailure ==
    fn.op = "validate" =>
        LET cs == Constraints(fn.args[1])
            failing == {i \in 1..Len(cs) : ~cs[i].met}
            r == fn.out[1]
        IN  /\ r.valid <=> failing = {}
            /\ r.valid => r.reason = ""
            /\ \A i \in failing :
                 (\A j \in failing : i <= j) => r.reason = cs[i].name
            /\ ~r.valid <=> fn.out[2] = "WebsiteInvalid"
            /\ ~r.valid => ~fn.out[3]

C21_Witness ==
    /\ fn.op = "validate"
    /\ fn.args[1] = WObj(StrOk, HtmlWith("", "script_ref_upper"), StrOk, StrOk)
    /\ fn.out[1] = [valid |-> FALSE, reason |-> "styles.css"]
    /\ fn.out[2] = "WebsiteInvalid"

\* The place of a required key in the order of Python's sorted().
KeyRank(k) ==
    CASE k = "feedback_items" -> 1
      [] k = "final_resume_text" -> 2
      [] k = "updated_pdf_path" -> 3

\* C22: a payload that lacks any of final_resume_text, updated_pdf_path,
\* feedback_items ends the stage with SchemaViolation, the message listing
\* exactly the missing keys in sorted order; the package is as it was, and no
\* artifact and no cache record is written.
C22_MissingKeysAbortBeforeAnyWrite ==
    fn.op = "stage" =>
        LET o == FirstObject(fn.args[1]).o
            missing == {"final_resume_text", "updated_pdf_path", "feedback_items"}
                       \ o.keys
            r == fn.out[1]
            listed == fn.out[2]
        IN  /\ missing /= {} =>
                 /\ r.res = "raise" /\ r.err = "SchemaViolation"
                 /\ r.pkg = fn.args[2]
                 /\ r.arts = NoArtifacts /\ r.file = NoFile
                 /\ r.events = <<"resume_crew">>
            /\ missing = {} => r.err /= "SchemaViolation"
            /\ {listed[i] : i \in 1..Len(listed)} = missing
            /\ \A i \in 1..Len(listed), j \in 1..Len(listed) :
                 i < j => KeyRank(listed[i]) < KeyRank(listed[j])

C22_Witness ==
    /\ fn.op = "stage"
    /\ FirstObject(fn.args[1]).o.keys = {"final_resume_text", "skipped_user_updates"}
    /\ fn.out[1].err = "SchemaViolation"
    /\ fn.out[2] = <<"feedback_items", "updated_pdf_path">>
    /\ fn.out[1].pkg.final_resume_text = <<>>

\* C23: once both runs have finished, the record file holds one complete
\* record, that of the last writer, and the record passes the schema check
\* and the gate; and no run that reads the file aborts.
C23_LastWriterLeavesCompleteRecord ==
    /\ \A p \in RaceProcs : race.procs[p].res /= "abort"
    /\ (race.on /\ race.last /= 0 /\ \A p \in RaceProcs : race.procs[p].pc = "done") =>
           LET rec == race.procs[race.last].rec
           IN  /\ race.content = Complete(race.last, rec)
               /\ RequiredKeys \subseteq rec.o.keys
               /\ PassesGate(StrText(rec.o.final_resume_text))

\* C24: when a run ends in a cache hit, the document at
\* package.updated_pdf_path is the one rendered from the record's
\* final_resume_text, whatever runs for other requests came in between.
C24_HitPairsTextWithItsDocument ==
    (fn.op = "hit_after" /\ fn.out[1] = "hit") =>
        /\ fn.out[2].updated_pdf_path = AbsOutputPdf
        /\ fn.out[3].exists
        /\ fn.out[3].text = fn.out[2].final_resume_text

\* The errors _set_resume_outputs raises, and the payload its arguments came
\* from in this run: the record found on a hit attempt, else what the
\* collaborator returned.
SetOutputsErrors == {"LowQualityOutput", "UpdatedPdfNotFound", "FeedbackItemsInvalid"}
SetOutputsPayload ==
    IF failedAt = "load_cache" \/ loaded.res = "hit" THEN loaded.file.o
    ELSE extracted.obj

\* C25: when a check of _set_resume_outputs fails, the package is what it was
\* before the call, and the run writes no artifact and no cache record; when
\* the checks pass, final_resume_text, updated_pdf_path, feedback_items, both
\* update lists and cache_hit hold the values of the call.
C25_SetOutputsAllOrNothing ==
    /\ (pc = "failed" /\ err \in SetOutputsErrors) =>
           /\ loaded.done
           /\ package = loaded.before
           /\ ~Has(log, "set_outputs")
           /\ ~Has(log, "write_artifacts")
           /\ ~Has(log, "cache_save")
           /\ ~(artifacts.review.exists
                /\ WrittenThisRun(artifacts.review.generated_at_utc))
           /\ cacheFiles[package.cache_key] = loaded.file
    /\ (Has(log, "set_outputs") /\ (loaded.res = "hit" \/ extracted.stage = "resume")) =>
           LET o == SetOutputsPayload
           IN  /\ package.final_resume_text =
                    NormalizeText(StrText(o.final_resume_text))
               /\ PassesGate(package.final_resume_text)
               /\ package.updated_pdf_path = AbsOutputPdf
               /\ o.feedback_items.t = "list"
               /\ package.feedback_items = o.feedback_items.items
               /\ package.feedback_items /= <<>>
               /\ package.applied_user_updates =
                    StrList(GetList(o, "applied_user_updates")).list
               /\ package.skipped_user_updates =
                    StrList(GetList(o, "skipped_user_updates")).list
               /\ package.cache_hit = (loaded.res = "hit")

C25_Witness ==
    /\ pc = "failed"
    /\ err = "FeedbackItemsInvalid"
    /\ failedAt = "review_update_render"
    /\ PassesGate(NormalizeText(StrText(extracted.obj.final_resume_text)))
    /\ updatedPdf.exists
    /\ package.final_resume_text = <<>>
    /\ package.updated_pdf_path = ""

\* C26: in a run the resume collaborator and the website collaborator are
\* each invoked at most once; the resume collaborator exactly when the cache
\* load reported a miss; the website collaborator only on the create_website
\* path and only after the resume stage set the outputs and wrote the
\* artifacts (and, after a miss, saved the record); after an error nothing
\* more is invoked and no later stage runs: the process ends.
C26_CollaboratorsOnceNoRetry ==
    /\ [](/\ Count(log, "resume_crew") <= 1
          /\ Count(log, "website_crew") <= 1
          /\ Has(log, "resume_crew") => (loaded.done /\ loaded.res = "miss")
          /\ (loaded.done /\ loaded.res = "miss" /\ pc /= "miss") =>
               Has(log, "resume_crew")
          /\ Has(log, "website_crew") =>
               /\ user_path = CREATE_WEBSITE
               /\ Has(log, "set_outputs") /\ Before(log, "set_outputs", "website_crew")
               /\ Has(log, "write_artifacts")
               /\ Before(log, "write_artifacts", "website_crew")
               /\ loaded.res = "miss" =>
                    (Has(log, "cache_save") /\ Before(log, "cache_save", "website_crew"))
          /\ pc = "failed" =>
               /\ failedAt \in {"start_conversation", "route_flow", "fingerprint",
                                "load_cache"} =>
                    (~Has(log, "resume_crew") /\ ~Has(log, "website_crew"))
               /\ failedAt /= "create_website" =>
                    (~Has(log, "website_crew") /\ ~Has(log, "build_meta"))
               /\ failedAt = "create_website" =>
                    (log[Len(log)] = "website_crew" /\ ~Has(log, "build_meta"))
               /\ failedAt = "review_update_render" =>
                    (log[Len(log)] = "resume_crew" /\ ~Has(log, "cache_save")))
    /\ [][pc = "failed" => pc' = "idle"]_vars

C26_Witness ==
    /\ pc = "done"
    /\ user_path = CREATE_WEBSITE
    /\ loaded.res = "miss"
    /\ Count(log, "resume_crew") = 1
    /\ Count(log, "website_crew") = 1
    /\ Before(log, "cache_save", "website_crew")

====
